---- MODULE Spec2Model ----
(***************************************************************************)
(* Model of the list pipeline of the social-media REST API                 *)
(* (src/routers/users.py, posts.py, comments.py, src/relationships.py,     *)
(* src/utils.py).                                                          *)
(*                                                                         *)
(* Conventions.                                                            *)
(*  - A Python str is a sequence of Unicode code points: <<99,97,102,233>> *)
(*    is "caf" followed by e-acute.                                         *)
(*  - An Optional value is None == <<>> or Some(v) == <<v>>.               *)
(*  - A datetime is a number of clock ticks; TicksPerSecond ticks make one *)
(*    second, so strftime, which prints whole seconds, is not injective.   *)
(*  - md5 over the key-sorted JSON text is modelled as injective: an ETag  *)
(*    is the key-sorted tuple of the payload it was computed from.         *)
(*  - A table is the sequence of its rows in the order query.all() returns *)
(*    them.                                                                *)
(***************************************************************************)
EXTENDS Integers, Sequences, FiniteSets, TLC

VARIABLES users, posts, comments, now, req, resp

vars == <<users, posts, comments, now, req, resp>>

----------------------------------------------------------------------------
(* Bounds of the model *)

MaxRecords == 2
MaxBulk == 25
MaxStamp == 2
MaxTicks == 1
MaxPage == 4
MaxLimit == 2
TicksPerSecond == 2

MaxComments == 1

MaxLikes == 1

MaxWorkers == 2

(* the users and the posts stored at one time when every handler runs *)
MaxCreated == 1

----------------------------------------------------------------------------
(* Optional values and Python truthiness *)

None == <<>>

Some(v) == <<v>>

IsNone(o) == o = <<>>

Val(o) == o[1]

(* `if s:` on an Optional[str]: None and "" are falsy *)
Truthy(o) == o # None /\ Val(o) # <<>>

Min(a, b) == IF a <= b THEN a ELSE b

Max(a, b) == IF a >= b THEN a ELSE b

----------------------------------------------------------------------------
(* Python strings: src/utils.py *)

(* unicodedata.normalize('NFD', s) on the code points the model uses:       *)
(* e-acute (233) decomposes to e (101) + combining acute (769), E-acute     *)
(* (201) to E (69) + 769; every other code point of the model is unchanged *)
RECURSIVE NFD(_)
NFD(s) ==
    IF s = <<>> THEN <<>>
    ELSE LET c == Head(s)
             d == IF c = 233 THEN <<101, 769>>
                  ELSE IF c = 201 THEN <<69, 769>>
                  ELSE <<c>>
         IN  d \o NFD(Tail(s))

(* unicodedata.category(c) = 'Mn': the combining diacritical marks *)
IsMn(c) == c \in 768..879

remove_accents(s) == SelectSeq(NFD(s), LAMBDA c : ~IsMn(c))

(* str.lower() *)
LowerChar(c) ==
    IF c \in 65..90 THEN c + 32
    ELSE IF c \in 192..222 /\ c # 215 THEN c + 32
    ELSE c

lower(s) == [i \in 1..Len(s) |-> LowerChar(s[i])]

(* `a in b` on two str: a is a substring of b *)
Contains(b, a) ==
    \E i \in 0..(Len(b) - Len(a)) : SubSeq(b, i + 1, i + Len(a)) = a

(* str.startswith *)
StartsWith(s, p) == Len(s) >= Len(p) /\ SubSeq(s, 1, Len(p)) = p

(* safe_str: None stays None, any other value becomes its str() *)
safe_str(o) == o

(* SQL lower(): the case of ASCII letters only is folded *)
AsciiLowerChar(c) == IF c \in 65..90 THEN c + 32 ELSE c

AsciiLower(s) == [i \in 1..Len(s) |-> AsciiLowerChar(s[i])]

(* SQL `text LIKE pattern` on two case-folded texts: '%' (37) in the        *)
(* pattern matches any run of characters, '_' (95) any one character, and  *)
(* every other character itself; the handlers name no ESCAPE character     *)
RECURSIVE like(_, _)
like(text, pattern) ==
    IF pattern = <<>> THEN text = <<>>
    ELSE IF Head(pattern) = 37
    THEN \E k \in 0..Len(text) : like(SubSeq(text, k + 1, Len(text)), Tail(pattern))
    ELSE /\ text # <<>>
         /\ Head(pattern) = 95 \/ Head(pattern) = Head(text)
         /\ like(Tail(text), Tail(pattern))

(* column.ilike(f"%{text}%"): lower(column) LIKE lower('%text%'), the text *)
(* placed in the pattern as it is, its '%' and '_' wildcards of the        *)
(* pattern                                                                 *)
ilike(col, text) == like(AsciiLower(col), AsciiLower(<<37>> \o text \o <<37>>))

(* json.dumps(list of str), the text the tags column holds: the items in   *)
(* double quotes, joined by ", ", inside brackets; in an item '"' and '\'  *)
(* are escaped with '\', the control characters are written \b \t \n \f   *)
(* \r or \u00XX, and every code point outside ASCII is written \uXXXX     *)
(* (code points of the model are below 65536)                              *)
HexDigit(n) == IF n < 10 THEN 48 + n ELSE 87 + n

json_escape(c) ==
    CASE c = 34 -> <<92, 34>>
      [] c = 92 -> <<92, 92>>
      [] c = 8  -> <<92, 98>>
      [] c = 9  -> <<92, 116>>
      [] c = 10 -> <<92, 110>>
      [] c = 12 -> <<92, 102>>
      [] c = 13 -> <<92, 114>>
      [] c \in 32..126 \ {34, 92} -> <<c>>
      [] OTHER -> <<92, 117, HexDigit(c \div 4096), HexDigit((c \div 256) % 16),
                    HexDigit((c \div 16) % 16), HexDigit(c % 16)>>

RECURSIVE json_dumps_str(_)
json_dumps_str(s) ==
    IF s = <<>> THEN <<>> ELSE json_escape(Head(s)) \o json_dumps_str(Tail(s))

RECURSIVE json_dumps_items(_)
json_dumps_items(list) ==
    IF list = <<>> THEN <<>>
    ELSE <<34>> \o json_dumps_str(Head(list)) \o <<34>>
         \o (IF Tail(list) = <<>> THEN <<>> ELSE <<44, 32>>)
         \o json_dumps_items(Tail(list))

json_dumps(list) == <<91>> \o json_dumps_items(list) \o <<93>>

(* str < str: Python compares code point by code point *)
RECURSIVE StrLess(_, _)
StrLess(a, b) ==
    IF b = <<>> THEN FALSE
    ELSE IF a = <<>> THEN TRUE
    ELSE IF Head(a) # Head(b) THEN Head(a) < Head(b)
    ELSE StrLess(Tail(a), Tail(b))

(* datetime.strftime with a format of whole seconds *)
Seconds(dt) == dt \div TicksPerSecond

(* strftime("%a, %d %b %Y %H:%M:%S GMT") *)
HttpDate(dt) == <<"GMT", Seconds(dt)>>

(* format_date(dt, lang): None for a missing date, day/month/year for a    *)
(* language starting with "fr", year-month-day otherwise                   *)
format_date(dt, lang) ==
    IF dt = None THEN None
    ELSE IF StartsWith(lang, <<102, 114>>) THEN Some(<<"d/m/Y", Seconds(Val(dt))>>)
    ELSE Some(<<"Y-m-d", Seconds(Val(dt))>>)

----------------------------------------------------------------------------
(* list.sort(key=..., reverse=...): a stable sort; with reverse=True the   *)
(* keys descend and records with equal keys still keep their order.        *)
(* keys[i] is the key of s[i]: a str, or <<n>> for a number or a datetime  *)
(* n, so that StrLess orders both kinds.                                   *)

KeyBefore(kx, ky, reverse) == IF reverse THEN StrLess(ky, kx) ELSE StrLess(kx, ky)

(* the positions of s in sorted order, position i inserted into the sorted *)
(* positions 1..i-1 after every position whose key is not after its own    *)
RECURSIVE InsertSorted(_, _, _, _)
InsertSorted(i, sorted, keys, reverse) ==
    IF sorted = <<>> THEN <<i>>
    ELSE IF KeyBefore(keys[i], keys[Head(sorted)], reverse) THEN <<i>> \o sorted
    ELSE <<Head(sorted)>> \o InsertSorted(i, Tail(sorted), keys, reverse)

RECURSIVE SortedPositions(_, _, _)
SortedPositions(n, keys, reverse) ==
    IF n = 0 THEN <<>>
    ELSE InsertSorted(n, SortedPositions(n - 1, keys, reverse), keys, reverse)

(* list_sort that sorts ascending and then reverses the list for           *)
(* reverse=True, which also reverses the records of equal keys             *)
list_sort_then_reverse(s, keys, reverse) ==
    LET pos == SortedPositions(Len(s), keys, FALSE)
    IN  [i \in 1..Len(s) |-> IF reverse THEN s[pos[Len(s) + 1 - i]] ELSE s[pos[i]]]

list_sort(s, keys, reverse) ==
    LET pos == SortedPositions(Len(s), keys, reverse)
    IN  [i \in 1..Len(s) |-> s[pos[i]]]

(* list[start:end] for ints start, end: negative indexes count from the    *)
(* end of the list, and both are clamped to the list                       *)
PyIndex(i, n) == IF i < 0 THEN Max(i + n, 0) ELSE Min(i, n)

PySlice(s, start, end) ==
    SubSeq(s, PyIndex(start, Len(s)) + 1, PyIndex(end, Len(s)))

----------------------------------------------------------------------------
(* Header parsing: src/utils.py *)

(* str.split(sep) for a one-character separator *)
RECURSIVE SplitAcc(_, _, _)
SplitAcc(s, sep, cur) ==
    IF s = <<>> THEN <<cur>>
    ELSE IF Head(s) = sep THEN <<cur>> \o SplitAcc(Tail(s), sep, <<>>)
    ELSE SplitAcc(Tail(s), sep, Append(cur, Head(s)))

split(s, sep) == SplitAcc(s, sep, <<>>)

(* str.strip(): the model's only whitespace is the space *)
RECURSIVE lstrip(_)
lstrip(s) == IF s # <<>> /\ Head(s) = 32 THEN lstrip(Tail(s)) ELSE s

RECURSIVE rstrip(_)
rstrip(s) ==
    IF s # <<>> /\ s[Len(s)] = 32 THEN rstrip(SubSeq(s, 1, Len(s) - 1)) ELSE s

strip(s) == lstrip(rstrip(s))

IsDigits(s) == s # <<>> /\ \A i \in 1..Len(s) : s[i] \in 48..57

RECURSIVE DigitsValue(_)
DigitsValue(s) ==
    IF s = <<>> THEN 0 ELSE 10 * DigitsValue(SubSeq(s, 1, Len(s) - 1)) + (s[Len(s)] - 48)

(* float(s) for the decimal notations "d", "d.d", "d." and ".d" (at most   *)
(* three decimals), in thousandths; None stands for ValueError             *)
float(s0) ==
    LET s     == strip(s0)
        parts == split(s, 46)
        ip    == parts[1]
        fp    == IF Len(parts) = 2 THEN parts[2] ELSE <<>>
        pad   == fp \o SubSeq(<<48, 48, 48>>, 1, 3 - Len(fp))
    IN  IF Len(parts) > 2 \/ Len(fp) > 3 THEN None
        ELSE IF ip = <<>> /\ fp = <<>> THEN None
        ELSE IF ip # <<>> /\ ~IsDigits(ip) THEN None
        ELSE IF fp # <<>> /\ ~IsDigits(fp) THEN None
        ELSE Some(1000 * DigitsValue(ip) + DigitsValue(pad))

Str_q_eq == <<113, 61>>

Str_xml == <<120, 109, 108>>

Str_json == <<106, 115, 111, 110>>

Str_v1 == <<118, 110, 100, 46, 109, 121, 97, 112, 112, 46, 118, 49>>

Str_v2 == <<118, 110, 100, 46, 109, 121, 97, 112, 112, 46, 118, 50>>

(* the loop over parts[1:] of one Accept entry: the last parsable q wins,  *)
(* an unparsable one is skipped *)
RECURSIVE AcceptQ(_, _)
AcceptQ(params, q) ==
    IF params = <<>> THEN q
    ELSE LET p == strip(Head(params))
             f == float(SubSeq(p, 3, Len(p)))
         IN  IF StartsWith(p, Str_q_eq) /\ f # None
             THEN AcceptQ(Tail(params), Val(f))
             ELSE AcceptQ(Tail(params), q)

AcceptItems(accept) ==
    LET entries == split(accept, 44)
    IN  [i \in 1..Len(entries) |->
            LET parts == split(strip(entries[i]), 59)
            IN  <<strip(parts[1]), AcceptQ(Tail(parts), 1000)>>]

(* parse_accept_header with the entries sorted by ascending q *)
parse_accept_header_ascending(accept) ==
    IF accept = None \/ Val(accept) = <<>>
    THEN <<"default", "application/json">>
    ELSE LET parsed == AcceptItems(Val(accept))
             items  == list_sort(parsed, [i \in 1..Len(parsed) |-> <<parsed[i][2]>>], FALSE)
             best_media == items[1][1]
             version == IF Contains(best_media, Str_v1) THEN "v1"
                        ELSE IF Contains(best_media, Str_v2) THEN "v2"
                        ELSE "default"
             format_type == IF Contains(lower(best_media), Str_xml)
                            THEN "application/xml"
                            ELSE "application/json"
         IN  <<version, format_type>>

(* parse_accept_header(accept) = <<version, format_type>> *)
parse_accept_header(accept) ==
    IF accept = None \/ Val(accept) = <<>>
    THEN <<"default", "application/json">>
    ELSE LET parsed == AcceptItems(Val(accept))
             items  == list_sort(parsed, [i \in 1..Len(parsed) |-> <<parsed[i][2]>>], TRUE)
             best_media == items[1][1]
             version == IF Contains(best_media, Str_v1) THEN "v1"
                        ELSE IF Contains(best_media, Str_v2) THEN "v2"
                        ELSE "default"
             format_type == IF Contains(lower(best_media), Str_xml)
                            THEN "application/xml"
                            ELSE "application/json"
         IN  <<version, format_type>>

(* the loop over the params of one Accept-Encoding entry: an unparsable q  *)
(* counts as 0.0 *)
RECURSIVE EncodingQ(_, _)
EncodingQ(params, q) ==
    IF params = <<>> THEN q
    ELSE LET p == strip(Head(params))
             f == float(SubSeq(p, 3, Len(p)))
         IN  IF StartsWith(p, Str_q_eq)
             THEN EncodingQ(Tail(params), IF f = None THEN 0 ELSE Val(f))
             ELSE EncodingQ(Tail(params), q)

EncodingItems(accept_encoding) ==
    LET entries == split(accept_encoding, 44)
    IN  [i \in 1..Len(entries) |->
            LET part  == strip(entries[i])
                parts == split(part, 59)
            IN  IF Len(parts) > 1
                THEN <<lower(parts[1]), EncodingQ(Tail(parts), 1000)>>
                ELSE <<lower(part), 1000>>]

Str_br == <<98, 114>>

Str_gzip == <<103, 122, 105, 112>>

Str_identity == <<105, 100, 101, 110, 116, 105, 116, 121>>

RECURSIVE FirstRecognized(_)
FirstRecognized(encodings) ==
    IF encodings = <<>> THEN Str_identity
    ELSE IF Head(encodings)[1] \in {Str_br, Str_gzip, Str_identity}
    THEN Head(encodings)[1]
    ELSE FirstRecognized(Tail(encodings))

(* choose_encoding without the sort: the first recognized entry of the     *)
(* header *)
choose_encoding_header_order(accept_encoding) ==
    IF accept_encoding = None \/ Val(accept_encoding) = <<>> THEN Str_identity
    ELSE FirstRecognized(EncodingItems(Val(accept_encoding)))

(* choose_encoding(accept_encoding) *)
choose_encoding(accept_encoding) ==
    IF accept_encoding = None \/ Val(accept_encoding) = <<>> THEN Str_identity
    ELSE LET encodings == EncodingItems(Val(accept_encoding))
         IN  FirstRecognized(
                 list_sort(encodings, [i \in 1..Len(encodings) |-> <<encodings[i][2]>>], TRUE))

(* compress_response(data, encoding): Brotli, gzip or the bytes as they are *)
compress_response_uncompressed(data, encoding) == data

compress_response(data, encoding) ==
    IF encoding = Str_br THEN <<"br", data>>
    ELSE IF encoding = Str_gzip THEN <<"gzip", data>>
    ELSE data

(* json2xml_bytes(data): dicttoxml under the root element <response> *)
json2xml_bytes(data) == <<"xml", "response", data>>

(* json.dumps(data, ensure_ascii=False).encode("utf-8") *)
json_bytes(data) == <<"json", data>>

----------------------------------------------------------------------------
(* Responses *)

NoHeaders == <<>>

(* the `except Exception as e` branch of the list handlers: status 500 and *)
(* a JSON body holding str(e) *)
Error500(message) ==
    [status  |-> 500,
     body    |-> json_bytes([error |-> message]),
     headers |-> [content_type |-> "application/json"]]

(* StreamingResponse(BytesIO(b""), status_code=304) *)
NotModified == [status |-> 304, body |-> <<>>, headers |-> NoHeaders]

ZeroDivisionError == "integer division or modulo by zero"

TypeError == "'<' not supported between instances"

(* raise HTTPException(status_code, detail), rendered by the handler       *)
(* registered for StarletteHTTPException. A detail is the list of the      *)
(* parts of its text: the literal, and the name an f-string puts in it     *)
HTTPException(status_code, detail) ==
    [status  |-> status_code,
     body    |-> json_bytes([detail |-> detail]),
     headers |-> [content_type |-> "application/json"]]

(* an exception no handler catches, rendered by server_error_handler *)
ServerError ==
    [status  |-> 500,
     body    |-> json_bytes([detail |-> <<"SERVER_ERROR: something went wrong on the server">>]),
     headers |-> [content_type |-> "application/json"]]

(* a query parameter outside its declared range (ge, le), rendered by      *)
(* validation_exception_handler *)
ValidationError ==
    [status  |-> 400,
     body    |-> json_bytes([detail |-> <<"BODY_NOT_VALID: check JSON format or fields">>]),
     headers |-> [content_type |-> "application/json"]]

(* f"{base}?page={page}&limit={limit}" *)
Href(base, page, limit) == [path |-> base, page |-> page, limit |-> limit]

Str_desc == <<100, 101, 115, 99>>

Str_fr == <<102, 114>>

(* Lang without the lower(): "fr" is looked for as it is written *)
Lang_case_sensitive(accept_language) ==
    IF StartsWith(accept_language, Str_fr) THEN <<102, 114>> ELSE <<101, 110>>

(* lang = "fr" if accept_language.lower().startswith("fr") else "en" *)
Lang(accept_language) ==
    IF StartsWith(lower(accept_language), Str_fr) THEN <<102, 114>> ELSE <<101, 110>>

(* max(list_of_datetimes, default=datetime.utcnow()) *)
RECURSIVE MaxOf(_)
MaxOf(s) == IF Len(s) = 1 THEN s[1] ELSE Max(Head(s), MaxOf(Tail(s)))

MaxDefault(s, default) == IF s = <<>> THEN default ELSE MaxOf(s)

(* start = (page - 1) * limit; end = start + limit; list[start:end] *)
(* page_slice with the window one page too far: start = page * limit *)
page_slice_from_page(list, page, limit) ==
    LET start == page * limit
        end   == start + limit
    IN  PySlice(list, start, end)

page_slice(list, page, limit) ==
    LET start == (page - 1) * limit
        end   == start + limit
    IN  PySlice(list, start, end)

(* cache_hit without the If-Modified-Since alternative *)
cache_hit_etag_only(request, etag, last_modified) ==
    request.if_none_match = Some(etag)

(* if_none_match == etag or                                                *)
(*     (if_modified_since and if_modified_since == last_modified)          *)
cache_hit(request, etag, last_modified) ==
    \/ request.if_none_match = Some(etag)
    \/ (Truthy(request.if_modified_since)
        /\ request.if_modified_since = Some(last_modified))

(* the tail of get_users, get_posts and get_comments: the conditional      *)
(* answer, then the body in the negotiated format and encoding, then the   *)
(* headers *)
Respond(request, response_data, etag, last_modified, lang, vary) ==
    IF cache_hit(request, etag, last_modified)
    THEN NotModified
    ELSE LET format_type     == parse_accept_header(Some(request.accept))[2]
             response_bytes  == IF format_type = "application/xml"
                                THEN json2xml_bytes(response_data)
                                ELSE json_bytes(response_data)
             media_type      == IF format_type = "application/xml"
                                THEN "application/xml"
                                ELSE "application/json"
             chosen_encoding == choose_encoding(Some(request.accept_encoding))
         IN  [status  |-> 200,
              body    |-> compress_response(response_bytes, chosen_encoding),
              headers |-> [content_type     |-> media_type,
                           content_encoding |-> chosen_encoding,
                           content_language |-> lang,
                           cache_control    |-> "public, max-age=60, must-revalidate",
                           etag             |-> etag,
                           last_modified    |-> last_modified,
                           vary             |-> vary]]

(* md5(json.dumps(response_data, sort_keys=True).encode("utf-8")).hexdigest() *)
md5_sorted_json(response_data) == <<"md5", response_data>>

----------------------------------------------------------------------------
(* GET /api/v1/users: src/routers/users.py, get_users                      *)
(* A user row is [id, firstName, lastName, email, dateOfBirth (Optional),  *)
(* registerDate]; title, phone, picture and location take no part in the   *)
(* pipeline and are left out of the row and of its dictionary.             *)

UserSortable == {"firstName", "lastName", "email", "registerDate", "dateOfBirth"}

UserStrFields == {"firstName", "lastName", "email"}

(* db.query(User) with the firstName, lastName and email filters *)
users_query(table, request) ==
    SelectSeq(table, LAMBDA u :
        /\ Truthy(request.firstName)
              => ilike(u.firstName, remove_accents(Val(request.firstName)))
        /\ Truthy(request.lastName)
              => ilike(u.lastName, remove_accents(Val(request.lastName)))
        /\ Truthy(request.email) => ilike(u.email, Val(request.email)))

(* users_search with the term lower-cased but not accent-stripped *)
users_search_accented_term(list, request) ==
    IF Truthy(request.search)
    THEN LET s_norm == lower(Val(request.search))
         IN  SelectSeq(list, LAMBDA u :
                 \/ Contains(lower(remove_accents(u.firstName)), s_norm)
                 \/ Contains(lower(remove_accents(u.lastName)), s_norm)
                 \/ Contains(lower(remove_accents(u.email)), s_norm))
    ELSE list

(* the accent-insensitive search over firstName, lastName and email *)
users_search(list, request) ==
    IF Truthy(request.search)
    THEN LET s_norm == lower(remove_accents(Val(request.search)))
         IN  SelectSeq(list, LAMBDA u :
                 \/ Contains(lower(remove_accents(u.firstName)), s_norm)
                 \/ Contains(lower(remove_accents(u.lastName)), s_norm)
                 \/ Contains(lower(remove_accents(u.email)), s_norm))
    ELSE list

(* the sort key of one user: the folded string, or the date as it is *)
user_sort_key(u, sort_by) ==
    IF sort_by \in UserStrFields THEN lower(remove_accents(u[sort_by]))
    ELSE IF sort_by = "registerDate" THEN <<u.registerDate>>
    ELSE u.dateOfBirth

(* comparing None with a date or with None raises TypeError; a sort of two *)
(* or more records compares every one of them *)
users_sort_raises(list, request) ==
    /\ request.sort_by = "dateOfBirth"
    /\ Len(list) >= 2
    /\ \E i \in 1..Len(list) : list[i].dateOfBirth = None

(* users_sort that falls back to the order of the ids when sort_by is not  *)
(* whitelisted *)
users_sort_fallback_id(list, request) ==
    list_sort(list,
              [i \in 1..Len(list) |->
                  IF request.sort_by \in UserSortable
                  THEN user_sort_key(list[i], request.sort_by)
                  ELSE <<list[i].id[2]>>],
              lower(request.sort_order) = Str_desc)

users_sort(list, request) ==
    IF request.sort_by \in UserSortable
    THEN list_sort(list,
                   [i \in 1..Len(list) |-> user_sort_key(list[i], request.sort_by)],
                   lower(request.sort_order) = Str_desc)
    ELSE list

(* users_list as it stands before the slice *)
users_list_of(table, request) ==
    users_sort(users_search(users_query(table, request), request), request)

user_dict(u, lang) ==
    [id           |-> safe_str(u.id),
     firstName    |-> safe_str(u.firstName),
     lastName     |-> safe_str(u.lastName),
     email        |-> safe_str(u.email),
     dateOfBirth  |-> format_date(u.dateOfBirth, lang),
     registerDate |-> format_date(Some(u.registerDate), lang)]

users_links(total, page, limit) ==
    <<[rel |-> "first", href |-> Href("/api/v1/users", 1, limit)],
      [rel |-> "last", href |-> Href("/api/v1/users", (total - 1) \div limit + 1, limit)]>>
    \o (IF page > 1
        THEN <<[rel |-> "prev", href |-> Href("/api/v1/users", page - 1, limit)]>>
        ELSE <<>>)
    \o (IF page * limit < total
        THEN <<[rel |-> "next", href |-> Href("/api/v1/users", page + 1, limit)]>>
        ELSE <<>>)

(* max([u.registerDate for u in users_page], default=datetime.utcnow())    *)
(*     .strftime("%a, %d %b %Y %H:%M:%S GMT")                              *)
users_last_modified(users_list, users_page, clock) ==
    HttpDate(MaxDefault([i \in 1..Len(users_page) |-> users_page[i].registerDate], clock))

(* the values get_users computes on its way, for limit # 0 and a sort that *)
(* does not raise *)
users_locals(table, clock, request) ==
    LET lang          == Lang(request.accept_language)
        users_list    == users_list_of(table, request)
        total         == Len(users_list)
        users_page    == page_slice(users_list, request.page, request.limit)
        result        == [i \in 1..Len(users_page) |-> user_dict(users_page[i], lang)]
        response_data == [api_version |-> "v1",
                          data        |-> result,
                          total       |-> total,
                          page        |-> request.page,
                          limit       |-> request.limit,
                          links       |-> users_links(total, request.page, request.limit)]
    IN  [lang          |-> lang,
         response_data |-> response_data,
         etag          |-> md5_sorted_json(response_data),
         last_modified |-> users_last_modified(users_list, users_page, clock)]

get_users(table, clock, request) ==
    IF users_sort_raises(users_search(users_query(table, request), request), request)
    THEN Error500(TypeError)
    ELSE IF request.limit = 0 THEN Error500(ZeroDivisionError)
    ELSE LET l == users_locals(table, clock, request)
         IN  Respond(request, l.response_data, l.etag, l.last_modified, l.lang,
                     "Accept-Encoding, Accept-Language")

----------------------------------------------------------------------------
(* GET /api/v1/posts: src/routers/posts.py, get_posts                      *)
(* A post row is [id, text, owner_id, publishDate, likes, tags]; tags is   *)
(* the list that the column holds as JSON text. image and link take no     *)
(* part in the pipeline and are left out. Requests of the model carry no   *)
(* publishDate filter.                                                     *)

PostSortable == {"text", "publishDate", "likes"}

(* Post.tags.ilike(f'%"{t}"%'): the column holds json.dumps of the list,   *)
(* and t stands between two double quotes in the pattern, its '%' and '_'  *)
(* wildcards of the pattern                                                *)
tags_ilike(tags, t) ==
    like(AsciiLower(json_dumps(tags)), AsciiLower(<<37, 34>> \o t \o <<34, 37>>))

(* [t.strip().lower() for t in tags.split(",")] *)
tag_list_of(tags) ==
    LET parts == split(tags, 44)
    IN  [i \in 1..Len(parts) |-> lower(strip(parts[i]))]

posts_query(table, request) ==
    SelectSeq(table, LAMBDA p :
        /\ Truthy(request.owner_id) => p.owner_id = Val(request.owner_id)
        /\ request.likes # None => p.likes = Val(request.likes)
        /\ Truthy(request.tags)
              => LET tag_list == tag_list_of(Val(request.tags))
                 IN  \A i \in 1..Len(tag_list) : tags_ilike(p.tags, tag_list[i]))

(* posts_search with the term accent-stripped but not lower-cased *)
posts_search_case(list, request) ==
    IF Truthy(request.search)
    THEN LET s_norm == remove_accents(Val(request.search))
         IN  SelectSeq(list, LAMBDA p :
                 Contains(lower(remove_accents(safe_str(p.text))), s_norm))
    ELSE list

posts_search(list, request) ==
    IF Truthy(request.search)
    THEN LET s_norm == lower(remove_accents(Val(request.search)))
         IN  SelectSeq(list, LAMBDA p :
                 Contains(lower(remove_accents(safe_str(p.text))), s_norm))
    ELSE list

post_sort_key(p, sort_by) ==
    IF sort_by = "text" THEN lower(remove_accents(safe_str(p.text)))
    ELSE <<p[sort_by]>>

posts_sort(list, request) ==
    IF request.sort_by \in PostSortable
    THEN list_sort(list,
                   [i \in 1..Len(list) |-> post_sort_key(list[i], request.sort_by)],
                   lower(request.sort_order) = Str_desc)
    ELSE list

posts_list_of(table, request) ==
    posts_sort(posts_search(posts_query(table, request), request), request)

(* p.owner, c.owner: the user row the foreign key names *)
owner_of(user_table, owner_id) ==
    user_table[CHOOSE i \in 1..Len(user_table) : user_table[i].id = owner_id]

user_summary(owner) ==
    [id        |-> safe_str(owner.id),
     firstName |-> safe_str(owner.firstName),
     lastName  |-> safe_str(owner.lastName)]

post_dict(p, user_table, lang) ==
    [id          |-> safe_str(p.id),
     text        |-> safe_str(p.text),
     likes       |-> p.likes,
     tags        |-> p.tags,
     publishDate |-> format_date(Some(p.publishDate), lang),
     user        |-> user_summary(owner_of(user_table, p.owner_id))]

(* last_page = max((total - 1) // limit + 1, 1) *)
last_page_of(total, limit) == Max((total - 1) \div limit + 1, 1)

(* the links dictionary of get_posts (self = FALSE) and of get_comments    *)
(* (self = TRUE) *)
links_dict(base_url, total, page, limit, self) ==
    LET last_page == last_page_of(total, limit)
        rels == {"first", "last"}
                \cup (IF self THEN {"self"} ELSE {})
                \cup (IF page > 1 THEN {"prev"} ELSE {})
                \cup (IF page < last_page THEN {"next"} ELSE {})
    IN  [r \in rels |->
            CASE r = "self"  -> Href(base_url, page, limit)
              [] r = "first" -> Href(base_url, 1, limit)
              [] r = "last"  -> Href(base_url, last_page, limit)
              [] r = "prev"  -> Href(base_url, page - 1, limit)
              [] r = "next"  -> Href(base_url, page + 1, limit)]

(* max([p.publishDate for p in posts_list], default=datetime.utcnow())     *)
(*     .strftime(...), the same line in get_comments *)
list_last_modified(list, clock) ==
    HttpDate(MaxDefault([i \in 1..Len(list) |-> list[i].publishDate], clock))

(* posts_locals with the ETag taken over the serialized body, after the    *)
(* format is applied *)
posts_locals_etag_of_bytes(table, user_table, clock, request) ==
    LET lang          == Lang(request.accept_language)
        posts_list    == posts_list_of(table, request)
        total         == Len(posts_list)
        posts_page    == page_slice(posts_list, request.page, request.limit)
        result        == [i \in 1..Len(posts_page) |->
                             post_dict(posts_page[i], user_table, lang)]
        response_data == [api_version |-> "v1",
                          data        |-> result,
                          total       |-> total,
                          page        |-> request.page,
                          limit       |-> request.limit,
                          links       |-> links_dict("/api/v1/posts", total, request.page,
                                                     request.limit, FALSE)]
        format_type   == parse_accept_header(Some(request.accept))[2]
    IN  [lang          |-> lang,
         response_data |-> response_data,
         etag          |-> md5_sorted_json(IF format_type = "application/xml"
                                           THEN json2xml_bytes(response_data)
                                           ELSE json_bytes(response_data)),
         last_modified |-> list_last_modified(posts_list, clock)]

posts_locals(table, user_table, clock, request) ==
    LET lang          == Lang(request.accept_language)
        posts_list    == posts_list_of(table, request)
        total         == Len(posts_list)
        posts_page    == page_slice(posts_list, request.page, request.limit)
        result        == [i \in 1..Len(posts_page) |->
                             post_dict(posts_page[i], user_table, lang)]
        response_data == [api_version |-> "v1",
                          data        |-> result,
                          total       |-> total,
                          page        |-> request.page,
                          limit       |-> request.limit,
                          links       |-> links_dict("/api/v1/posts", total, request.page,
                                                     request.limit, FALSE)]
    IN  [lang          |-> lang,
         response_data |-> response_data,
         etag          |-> md5_sorted_json(response_data),
         last_modified |-> list_last_modified(posts_list, clock)]

get_posts(table, user_table, clock, request) ==
    IF request.limit = 0 THEN Error500(ZeroDivisionError)
    ELSE LET l == posts_locals(table, user_table, clock, request)
         IN  Respond(request, l.response_data, l.etag, l.last_modified, l.lang,
                     "Accept-Language, Accept-Encoding")

----------------------------------------------------------------------------
(* GET /api/v1/comments: src/routers/comments.py, get_comments             *)
(* A comment row is [id, message, owner_id, post_id, publishDate].         *)
(* Requests of the model carry no publishDate filter.                      *)

CommentSortable == {"message", "publishDate"}

comments_query(table, request) ==
    SelectSeq(table, LAMBDA c :
        /\ Truthy(request.owner_id) => c.owner_id = Val(request.owner_id)
        /\ Truthy(request.post_id) => c.post_id = Val(request.post_id))

comments_search(list, request) ==
    IF Truthy(request.search)
    THEN LET s_norm == lower(remove_accents(Val(request.search)))
         IN  SelectSeq(list, LAMBDA c :
                 Contains(lower(remove_accents(safe_str(c.message))), s_norm))
    ELSE list

comment_sort_key(c, sort_by) ==
    IF sort_by = "message" THEN lower(remove_accents(safe_str(c.message)))
    ELSE <<c[sort_by]>>

comments_sort(list, request) ==
    IF request.sort_by \in CommentSortable
    THEN list_sort(list,
                   [i \in 1..Len(list) |-> comment_sort_key(list[i], request.sort_by)],
                   lower(request.sort_order) = Str_desc)
    ELSE list

comments_list_of(table, request) ==
    comments_sort(comments_search(comments_query(table, request), request), request)

comment_dict(c, user_table, lang) ==
    [id          |-> safe_str(c.id),
     message     |-> safe_str(c.message),
     post_id     |-> safe_str(c.post_id),
     publishDate |-> format_date(Some(c.publishDate), lang),
     owner       |-> user_summary(owner_of(user_table, c.owner_id))]

(* comments_locals with the handling time hashed into the ETag *)
comments_locals_timed_etag(table, user_table, clock, request) ==
    LET lang          == Lang(request.accept_language)
        comments_list == comments_list_of(table, request)
        total         == Len(comments_list)
        comments_page == page_slice(comments_list, request.page, request.limit)
        result        == [i \in 1..Len(comments_page) |->
                             comment_dict(comments_page[i], user_table, lang)]
        response_data == [api_version |-> "v1",
                          data        |-> result,
                          total       |-> total,
                          page        |-> request.page,
                          limit       |-> request.limit,
                          links       |-> links_dict("/api/v1/comments", total,
                                                     request.page, request.limit, TRUE)]
    IN  [lang          |-> lang,
         response_data |-> response_data,
         etag          |-> md5_sorted_json(<<clock, response_data>>),
         last_modified |-> list_last_modified(comments_list, clock)]

comments_locals(table, user_table, clock, request) ==
    LET lang          == Lang(request.accept_language)
        comments_list == comments_list_of(table, request)
        total         == Len(comments_list)
        comments_page == page_slice(comments_list, request.page, request.limit)
        result        == [i \in 1..Len(comments_page) |->
                             comment_dict(comments_page[i], user_table, lang)]
        response_data == [api_version |-> "v1",
                          data        |-> result,
                          total       |-> total,
                          page        |-> request.page,
                          limit       |-> request.limit,
                          links       |-> links_dict("/api/v1/comments", total,
                                                     request.page, request.limit, TRUE)]
    IN  [lang          |-> lang,
         response_data |-> response_data,
         etag          |-> md5_sorted_json(response_data),
         last_modified |-> list_last_modified(comments_list, clock)]

get_comments(table, user_table, clock, request) ==
    IF request.limit = 0 THEN Error500(ZeroDivisionError)
    ELSE LET l == comments_locals(table, user_table, clock, request)
         IN  Respond(request, l.response_data, l.etag, l.last_modified, l.lang,
                     "Accept-Encoding, Accept-Language")

----------------------------------------------------------------------------
(* Relationship endpoints: src/relationships.py                            *)
(* A path identifier is <<"uuid", k>>, a well-formed UUID string, or       *)
(* <<"text", k>>, a string that uuid.UUID() rejects.                       *)

(* validate_uuid(param_value, param_name): TRUE iff uuid.UUID() accepts it *)
validate_uuid(param_value) == param_value[1] = "uuid"

InvalidUuid(param_name) == HTTPException(400, <<"PARAMS_NOT_VALID", param_name>>)

NotFound(what) == HTTPException(404, <<"RESOURCE_NOT_FOUND", what>>)

exists_id(table, id) == \E i \in 1..Len(table) : table[i].id = id

(* query.offset(offset).limit(limit).all() for offset >= 0 and limit >= 0 *)
offset_limit(rows, offset, limit) ==
    SubSeq(rows, offset + 1, Min(offset + limit, Len(rows)))

(* PaginatedResponse (src/schemas.py) declares data, total, page and limit *)
(* only: the links keyword the handlers pass is not a field of the model   *)
(* and is not part of the response *)
PaginatedResponse(data, total, page, limit, links) ==
    [status  |-> 200,
     body    |-> json_bytes([data |-> data, total |-> total, page |-> page,
                             limit |-> limit]),
     headers |-> [content_type |-> "application/json"]]

(* the collection_links list of the four relationship handlers *)
collection_links(base, total, page, limit, self) ==
    LET total_pages == (total + limit - 1) \div limit
    IN  (IF self THEN <<[rel |-> "self", href |-> Href(base, page, limit)]>> ELSE <<>>)
        \o <<[rel |-> "first", href |-> Href(base, 1, limit)],
             [rel |-> "last", href |-> Href(base, total_pages, limit)]>>
        \o (IF page > 1
            THEN <<[rel |-> "prev", href |-> Href(base, page - 1, limit)]>>
            ELSE <<>>)
        \o (IF page < total_pages
            THEN <<[rel |-> "next", href |-> Href(base, page + 1, limit)]>>
            ELSE <<>>)

post_read(p, user_table) ==
    [id          |-> p.id,
     text        |-> p.text,
     tags        |-> p.tags,
     publishDate |-> p.publishDate,
     likes       |-> p.likes,
     user        |-> user_summary(owner_of(user_table, p.owner_id))]

comment_read(c, user_table) ==
    [id          |-> c.id,
     message     |-> c.message,
     post_id     |-> c.post_id,
     publishDate |-> c.publishDate,
     owner       |-> user_summary(owner_of(user_table, c.owner_id))]

(* GET /api/v1/users/{user_id}/posts. PostRead (src/schemas.py) has no     *)
(* links field, so `post_item.links = [...]` raises ValueError for the     *)
(* first post of the page; no handler catches it *)
get_user_posts(post_table, user_table, request) ==
    LET user_id == request.path_id
        rows    == SelectSeq(post_table, LAMBDA p : p.owner_id = user_id)
        offset  == (request.page - 1) * request.limit
        page    == offset_limit(rows, offset, request.limit)
        total   == Len(rows)
    IN  IF ~validate_uuid(user_id) THEN InvalidUuid("user_id")
        ELSE IF ~exists_id(user_table, user_id) THEN NotFound("user")
        ELSE IF page # <<>> THEN ServerError
        ELSE IF request.limit = 0 THEN ServerError
        ELSE PaginatedResponse(
                 <<>>, total, request.page, request.limit,
                 collection_links(<<"/api/v1/users/", user_id, "/posts">>, total,
                                  request.page, request.limit, FALSE))

(* GET /api/v1/users/{user_id}/comments *)
get_user_comments(comment_table, user_table, request) ==
    LET user_id == request.path_id
        rows    == SelectSeq(comment_table, LAMBDA c : c.owner_id = user_id)
        offset  == (request.page - 1) * request.limit
        page    == offset_limit(rows, offset, request.limit)
        total   == Len(rows)
    IN  IF ~validate_uuid(user_id) THEN InvalidUuid("user_id")
        ELSE IF ~exists_id(user_table, user_id) THEN NotFound("user")
        ELSE IF request.limit = 0 THEN ServerError
        ELSE PaginatedResponse(
                 [i \in 1..Len(page) |-> comment_read(page[i], user_table)],
                 total, request.page, request.limit,
                 collection_links(<<"/api/v1/users/", user_id, "/comments">>, total,
                                  request.page, request.limit, TRUE))

(* GET /api/v1/posts/{post_id}/comments *)
get_post_comments(comment_table, post_table, user_table, request) ==
    LET post_id == request.path_id
        rows    == SelectSeq(comment_table, LAMBDA c : c.post_id = post_id)
        offset  == (request.page - 1) * request.limit
        page    == offset_limit(rows, offset, request.limit)
        total   == Len(rows)
    IN  IF ~validate_uuid(post_id) THEN InvalidUuid("post_id")
        ELSE IF ~exists_id(post_table, post_id) THEN NotFound("post")
        ELSE IF request.limit = 0 THEN ServerError
        ELSE PaginatedResponse(
                 [i \in 1..Len(page) |-> comment_read(page[i], user_table)],
                 total, request.page, request.limit,
                 collection_links(<<"/api/v1/posts/", post_id, "/comments">>, total,
                                  request.page, request.limit, TRUE))

(* GET /api/v1/tags/{tagname}/posts: page is declared ge=1 and limit ge=1, *)
(* le=100; a page without posts is answered 404 *)
get_posts_by_tag(post_table, user_table, request) ==
    LET tagname == request.path_id
        rows    == SelectSeq(post_table, LAMBDA p : tags_ilike(p.tags, lower(tagname)))
        total   == Len(rows)
        offset  == (request.page - 1) * request.limit
        page    == offset_limit(rows, offset, request.limit)
    IN  IF request.page < 1 \/ request.limit < 1 \/ request.limit > 100
        THEN ValidationError
        ELSE IF page = <<>> THEN HTTPException(404, <<"No posts found for tag", tagname>>)
        ELSE PaginatedResponse(
                 [i \in 1..Len(page) |-> post_read(page[i], user_table)],
                 total, request.page, request.limit,
                 collection_links(<<"/api/v1/tags/", tagname, "/posts">>, total,
                                  request.page, request.limit, TRUE))

----------------------------------------------------------------------------
(* The store *)

UserId(i) == <<"uuid", i>>

PostId(i) == <<"uuid", 100 + i>>

CommentId(i) == <<"uuid", 200 + i>>

(* a well-formed identifier that names no row, and a malformed one *)
MissingId == <<"uuid", 0>>

MalformedId == <<"text", 0>>

Str_cafe_acute == <<99, 97, 102, 233>>

Str_Cafe == <<67, 97, 102, 101>>

Str_Zed == <<90, 101, 100>>

Str_Li == <<76, 105>>

Tag_x == <<120>>

Tag_y == <<121>>

Names == <<Str_cafe_acute, Str_Zed, Str_Cafe>>

Texts == {Str_cafe_acute, Str_Zed}

Stamps == 0..MaxStamp

(* the clock reading when the first request arrives: after every stamp *)
StartTime == MaxStamp + 1

user_row(i, firstName, registerDate) ==
    [id           |-> UserId(i),
     firstName    |-> firstName,
     lastName     |-> Str_Li,
     email        |-> <<96 + i, 64, 120>>,
     dateOfBirth  |-> IF i % 2 = 1 THEN Some(i) ELSE None,
     registerDate |-> registerDate]

post_row(i, text, publishDate) ==
    [id          |-> PostId(i),
     text        |-> text,
     owner_id    |-> UserId(2 - (i % 2)),
     publishDate |-> publishDate,
     likes       |-> i % 2,
     tags        |-> IF i % 2 = 1 THEN <<Tag_x>> ELSE <<Tag_x, Tag_y>>]

comment_row(i, message, publishDate) ==
    [id          |-> CommentId(i),
     message     |-> message,
     owner_id    |-> UserId(2 - (i % 2)),
     post_id     |-> PostId(2 - (i % 2)),
     publishDate |-> publishDate]

(* the two users and the two posts of the stores whose posts or comments   *)
(* vary *)
TwoUsers == <<user_row(1, Str_cafe_acute, 0), user_row(2, Str_Zed, 1)>>

TwoPosts == <<post_row(1, Str_cafe_acute, 0), post_row(2, Str_Zed, 1)>>

(* a table of n rows whose text and stamp follow from the row number *)
BulkText(i) == Names[(i % Len(Names)) + 1]

BulkStamp(i) == i % (MaxStamp + 1)

BulkSizes == (MaxBulk - 1)..MaxBulk

(* every store of the model holds unique identifiers and emails, and every *)
(* owner_id and post_id names a stored row *)
InitUsers ==
    /\ \E n \in 0..MaxRecords :
         \E fn \in [1..n -> Texts], rd \in [1..n -> Stamps] :
            users = [i \in 1..n |-> user_row(i, fn[i], rd[i])]
    /\ posts = <<>>
    /\ comments = <<>>

InitPosts ==
    /\ users = TwoUsers
    /\ \E n \in 1..MaxRecords :
         \E tx \in [1..n -> Texts], pd \in [1..n -> Stamps] :
            posts = [i \in 1..n |-> post_row(i, tx[i], pd[i])]
    /\ comments = <<>>

InitComments ==
    /\ users = TwoUsers
    /\ posts = TwoPosts
    /\ \E n \in 1..MaxRecords :
         \E tx \in [1..n -> Texts], pd \in [1..n -> Stamps] :
            comments = [i \in 1..n |-> comment_row(i, tx[i], pd[i])]

InitBulk ==
    \E n \in BulkSizes :
        \/ /\ users = [i \in 1..n |-> user_row(i, BulkText(i), BulkStamp(i))]
           /\ posts = <<>>
           /\ comments = <<>>
        \/ /\ users = TwoUsers
           /\ posts = [i \in 1..n |-> post_row(i, BulkText(i), BulkStamp(i))]
           /\ comments = <<>>
        \/ /\ users = TwoUsers
           /\ posts = TwoPosts
           /\ comments = [i \in 1..n |-> comment_row(i, BulkText(i), BulkStamp(i))]

Init ==
    /\ InitUsers \/ InitPosts \/ InitComments \/ InitBulk
    /\ now = StartTime
    /\ req = None
    /\ resp = None

----------------------------------------------------------------------------
(* Requests *)

(* the default of the limit parameter of every list handler *)
DefaultLimit == 10

Limits == (0..MaxLimit) \cup {DefaultLimit}

Str_asc == <<97, 115, 99>>

Str_DESC == <<68, 69, 83, 67>>

Str_en == <<101, 110>>

Str_fr_FR == <<102, 114, 45, 70, 82>>

Accept_json == <<97, 112, 112, 108, 105, 99, 97, 116, 105, 111, 110, 47, 106, 115, 111, 110>>

Accept_xml == <<97, 112, 112, 108, 105, 99, 97, 116, 105, 111, 110, 47, 120, 109, 108, 59, 113, 61, 48, 46, 57, 44, 32, 116, 101, 120, 116, 47, 104, 116, 109, 108, 59, 113, 61, 48, 46, 56>>

Encoding_identity == <<105, 100, 101, 110, 116, 105, 116, 121>>

Encoding_gzip == <<98, 114, 59, 113, 61, 48, 46, 53, 44, 32, 103, 122, 105, 112, 59, 113, 61, 48, 46, 56>>

Search_cafe == <<67, 65, 70, 69>>

Filter_z == <<122>>

(* filter texts that hold a LIKE wildcard: "_e" and "_" *)
Filter_any_e == <<95, 101>>

Filter_any == <<95>>

(* a request with the defaults the handler's signature declares *)
DefaultRequest(endpoint, sort_by, sort_order) ==
    [endpoint          |-> endpoint,
     path_id           |-> None,
     page              |-> 1,
     limit             |-> DefaultLimit,
     sort_by           |-> sort_by,
     sort_order        |-> sort_order,
     firstName         |-> None,
     lastName          |-> None,
     email             |-> None,
     owner_id          |-> None,
     post_id           |-> None,
     likes             |-> None,
     tags              |-> None,
     search            |-> None,
     accept            |-> Accept_json,
     accept_encoding   |-> Str_identity,
     accept_language   |-> Str_en,
     if_none_match     |-> None,
     if_modified_since |-> None]

(* the requests of the model: every page and limit with the other          *)
(* parameters at their defaults; every sort, filter and search on the      *)
(* first page; every Accept, Accept-Encoding and Accept-Language *)
Paging(base) ==
    {[base EXCEPT !.page = p, !.limit = l] : p \in 1..MaxPage, l \in Limits}

Headers(base) ==
    {[base EXCEPT !.accept = a, !.accept_encoding = e, !.accept_language = l] :
        a \in {Accept_json, Accept_xml},
        e \in {Encoding_identity, Encoding_gzip},
        l \in {Str_en, Str_fr_FR}}

Sorting(base, sort_bys) ==
    {[base EXCEPT !.sort_by = sb, !.sort_order = so, !.limit = l, !.search = se] :
        sb \in sort_bys, so \in {Str_asc, Str_DESC}, l \in {1, DefaultLimit},
        se \in {None, Some(Search_cafe)}}

Str_FR_CA == <<70, 82, 45, 67, 65>>

Str_en_FR == <<101, 110, 45, 70, 82>>

Str_cafe == <<99, 97, 102, 101>>

(* the first page under Accept-Language values that differ in case and in  *)
(* where "fr" stands, and under no language *)
Locales(base) ==
    {[base EXCEPT !.accept_language = l] : l \in {Str_FR_CA, Str_en_FR, <<>>}}

(* the first page under a search term without and with an accent *)
Searches(base) ==
    {[base EXCEPT !.search = Some(t)] : t \in {Str_cafe, Str_cafe_acute}}

UsersBase == DefaultRequest("users", "firstName", Str_asc)

UsersRequests ==
    Paging(UsersBase) \cup Headers(UsersBase)
    \cup Sorting(UsersBase, {"registerDate", "dateOfBirth", "id"})
    \cup Sorting([UsersBase EXCEPT !.firstName = Some(Filter_z)], {"firstName"})
    \cup {[UsersBase EXCEPT !.firstName = Some(Filter_any_e)]}
    \cup Locales(UsersBase) \cup Searches(UsersBase)

PostsBase == DefaultRequest("posts", "publishDate", Str_desc)

PostsRequests ==
    Paging(PostsBase) \cup Headers(PostsBase)
    \cup Sorting(PostsBase, {"text", "likes", "id"})
    \cup Sorting([PostsBase EXCEPT !.owner_id = Some(UserId(1))], {"publishDate"})
    \cup {[PostsBase EXCEPT !.tags = Some(Tag_y)], [PostsBase EXCEPT !.likes = Some(0)],
          [PostsBase EXCEPT !.tags = Some(Filter_any)]}
    \cup Locales(PostsBase) \cup Searches(PostsBase)

CommentsBase == DefaultRequest("comments", "publishDate", Str_desc)

CommentsRequests ==
    Paging(CommentsBase) \cup Headers(CommentsBase)
    \cup Sorting(CommentsBase, {"message", "id"})
    \cup Sorting([CommentsBase EXCEPT !.post_id = Some(PostId(1))], {"publishDate"})
    \cup {[CommentsBase EXCEPT !.owner_id = Some(UserId(2))]}
    \cup Locales(CommentsBase) \cup Searches(CommentsBase)

(* a relationship request: every page and limit under a stored parent, and *)
(* the default page under a missing and under a malformed identifier *)
RelationRequests(endpoint, stored) ==
    LET base == DefaultRequest(endpoint, "", <<>>)
    IN  {[base EXCEPT !.path_id = id, !.page = p, !.limit = l] :
            id \in stored, p \in 1..MaxPage, l \in Limits}
        \cup {[base EXCEPT !.path_id = id] : id \in {MissingId, MalformedId}}

TagRequests ==
    LET base == DefaultRequest("posts_by_tag", "", <<>>)
    IN  {[base EXCEPT !.path_id = t, !.page = p, !.limit = l] :
            t \in {Tag_x, Tag_y}, p \in 1..MaxPage, l \in Limits}

(* what a client that holds the response to its request may send next: the *)
(* same request with the validators it received, in the same or in the     *)
(* other language *)
Conditional(request, response) ==
    {[request EXCEPT !.if_none_match = inm, !.if_modified_since = ims,
                     !.accept_language = l] :
        inm \in {None, Some(response.headers.etag)},
        ims \in {None, Some(response.headers.last_modified)},
        l \in {Str_en, Str_fr_FR}}
    \ {[request EXCEPT !.accept_language = l] : l \in {Str_en, Str_fr_FR}}

Idle == req = None /\ resp = None

(* the requests a client may send to `endpoint` now *)
ClientRequests(endpoint, fresh) ==
    IF Idle THEN fresh
    ELSE IF /\ Val(req).endpoint = endpoint
            /\ Val(resp).status = 200
            /\ "etag" \in DOMAIN Val(resp).headers
            /\ Val(req).if_none_match = None
            /\ Val(req).if_modified_since = None
    THEN Conditional(Val(req), Val(resp))
    ELSE {}

(* utcnow() when the request is handled: the clock never runs backwards *)
Clock == now..Min(now + 1, StartTime + MaxTicks)

----------------------------------------------------------------------------
(* Actions: one per handler, the request and the clock reading drawn *)

Answer(request, clock, response) ==
    /\ req' = Some(request)
    /\ resp' = Some(response)
    /\ now' = clock
    /\ UNCHANGED <<users, posts, comments>>

GetUsers ==
    \E request \in ClientRequests("users", UsersRequests), clock \in Clock :
        Answer(request, clock, get_users(users, clock, request))

GetPosts ==
    \E request \in ClientRequests("posts", PostsRequests), clock \in Clock :
        Answer(request, clock, get_posts(posts, users, clock, request))

GetComments ==
    \E request \in ClientRequests("comments", CommentsRequests), clock \in Clock :
        Answer(request, clock, get_comments(comments, users, clock, request))

GetUserPosts ==
    \E request \in ClientRequests("user_posts", RelationRequests("user_posts", {UserId(1)})),
       clock \in Clock :
        Answer(request, clock, get_user_posts(posts, users, request))

GetUserComments ==
    \E request \in ClientRequests("user_comments",
                                  RelationRequests("user_comments", {UserId(1)})),
       clock \in Clock :
        Answer(request, clock, get_user_comments(comments, users, request))

GetPostComments ==
    \E request \in ClientRequests("post_comments",
                                  RelationRequests("post_comments", {PostId(1)})),
       clock \in Clock :
        Answer(request, clock, get_post_comments(comments, posts, users, request))

GetPostsByTag ==
    \E request \in ClientRequests("posts_by_tag", TagRequests), clock \in Clock :
        Answer(request, clock, get_posts_by_tag(posts, users, request))

(* the client is done with the exchange *)
Forget ==
    /\ ~Idle
    /\ req' = None
    /\ resp' = None
    /\ UNCHANGED <<users, posts, comments, now>>

Next ==
    \/ GetUsers
    \/ GetPosts
    \/ GetComments
    \/ GetUserPosts
    \/ GetUserComments
    \/ GetPostComments
    \/ GetPostsByTag
    \/ Forget

Spec == Init /\ [][Next]_vars

----------------------------------------------------------------------------
(* Reading an exchange: the request answered last and its response *)

Answered == resp # None

R == Val(req)

A == Val(resp)

MainEndpoints == {"users", "posts", "comments"}

(* the handler of the endpoint a request names, at a given clock reading *)
Handle(request, clock) ==
    CASE request.endpoint = "users" -> get_users(users, clock, request)
      [] request.endpoint = "posts" -> get_posts(posts, users, clock, request)
      [] request.endpoint = "comments" -> get_comments(comments, users, clock, request)
      [] request.endpoint = "user_posts" -> get_user_posts(posts, users, request)
      [] request.endpoint = "user_comments" -> get_user_comments(comments, users, request)
      [] request.endpoint = "post_comments" ->
             get_post_comments(comments, posts, users, request)
      [] request.endpoint = "posts_by_tag" -> get_posts_by_tag(posts, users, request)

(* the ETag and Last-Modified a main handler computes for a request *)
LocalsOf(request, clock) ==
    CASE request.endpoint = "users" -> users_locals(users, clock, request)
      [] request.endpoint = "posts" -> posts_locals(posts, users, clock, request)
      [] request.endpoint = "comments" -> comments_locals(comments, users, clock, request)

(* the body with the compression and the serialization undone *)
PayloadOf(response) ==
    LET plain == IF response.body[1] \in {"br", "gzip"}
                 THEN response.body[2] ELSE response.body
    IN  IF plain[1] = "xml" THEN plain[3] ELSE plain[2]

(* the relations of a link set, a list of {rel, href} for users and a      *)
(* dictionary for posts and comments, and the page a relation points to *)
RelsOf(request, links) ==
    IF request.endpoint = "users" THEN {links[i].rel : i \in 1..Len(links)}
    ELSE DOMAIN links \ {"self"}

LinkPage(request, links, rel) ==
    IF request.endpoint = "users"
    THEN links[CHOOSE i \in 1..Len(links) : links[i].rel = rel].href.page
    ELSE links[rel].page

(* the rows of the store that pass the filters and the search of a request *)
(* to a main endpoint. A user passes a name or email filter when the       *)
(* column matches the LIKE pattern %filter% (the name filter               *)
(* accent-stripped), and the search when one of firstName, lastName and    *)
(* email holds the term, both sides accent-stripped and lower-cased; a     *)
(* post passes the tags filter when the JSON text of its tags matches the  *)
(* pattern %"tag"% for every tag of the comma-separated list               *)
Fold(str) == lower(remove_accents(str))

Given(o) == o # None /\ Val(o) # <<>>

Passes(request, row) ==
    CASE request.endpoint = "users" ->
           /\ Given(request.firstName) =>
                 ilike(row.firstName, remove_accents(Val(request.firstName)))
           /\ Given(request.lastName) =>
                 ilike(row.lastName, remove_accents(Val(request.lastName)))
           /\ Given(request.email) => ilike(row.email, Val(request.email))
           /\ Given(request.search) =>
                 \E f \in {"firstName", "lastName", "email"} :
                     Contains(Fold(row[f]), Fold(Val(request.search)))
      [] request.endpoint = "posts" ->
           /\ Given(request.owner_id) => row.owner_id = Val(request.owner_id)
           /\ request.likes # None => row.likes = Val(request.likes)
           /\ Given(request.tags) =>
                 \A i \in 1..Len(tag_list_of(Val(request.tags))) :
                     tags_ilike(row.tags, tag_list_of(Val(request.tags))[i])
           /\ Given(request.search) => Contains(Fold(row.text), Fold(Val(request.search)))
      [] request.endpoint = "comments" ->
           /\ Given(request.owner_id) => row.owner_id = Val(request.owner_id)
           /\ Given(request.post_id) => row.post_id = Val(request.post_id)
           /\ Given(request.search) =>
                 Contains(Fold(row.message), Fold(Val(request.search)))

TableOf(request) ==
    CASE request.endpoint = "users" -> users
      [] request.endpoint \in {"posts", "user_posts", "posts_by_tag"} -> posts
      [] OTHER -> comments

PassingRows(request) ==
    {i \in 1..Len(TableOf(request)) : Passes(request, TableOf(request)[i])}

(* ceil(a / b) for b >= 1 *)
Ceil(a, b) == (a + b - 1) \div b

LastPage(total, limit) == Max(Ceil(total, limit), 1)

(* a response of a main endpoint that carries a payload, to a request with *)
(* page >= 1 and limit >= 1 *)
Listed ==
    /\ Answered
    /\ R.endpoint \in MainEndpoints
    /\ A.status = 200
    /\ R.page >= 1
    /\ R.limit >= 1

----------------------------------------------------------------------------
(* C1: in a response of the users, posts or comments list, total is the    *)
(* number of rows that pass the filters and the search (a number that does *)
(* not depend on page and limit), data holds at most limit records, and an *)
(* empty filtered collection gives an empty data list and total 0.         *)
C1_TotalIsFilteredSize ==
    Listed =>
        /\ PayloadOf(A).total = Cardinality(PassingRows(R))
        /\ Len(PayloadOf(A).data) <= R.limit
        /\ PassingRows(R) = {} => PayloadOf(A).data = <<>> /\ PayloadOf(A).total = 0

(* a search that drops some rows and keeps more than one page of them *)
C1_Witness ==
    /\ Listed
    /\ R.search # None
    /\ PayloadOf(A).total < Len(TableOf(R))
    /\ PayloadOf(A).total > R.limit
    /\ Len(PayloadOf(A).data) = R.limit

----------------------------------------------------------------------------
(* the filtered, searched and sorted collection of a request to a main     *)
(* endpoint, and the record the payload carries for one of its rows *)
SortedOf(request) ==
    CASE request.endpoint = "users" -> users_list_of(users, request)
      [] request.endpoint = "posts" -> posts_list_of(posts, request)
      [] request.endpoint = "comments" -> comments_list_of(comments, request)

DictOf(request, row) ==
    CASE request.endpoint = "users" -> user_dict(row, Lang(request.accept_language))
      [] request.endpoint = "posts" ->
             post_dict(row, users, Lang(request.accept_language))
      [] request.endpoint = "comments" ->
             comment_dict(row, users, Lang(request.accept_language))

Rels == RelsOf(R, PayloadOf(A).links)

(* C2: the data of a list response is the records at 0-based positions     *)
(* (page-1)*limit up to, excluding, min(page*limit, total) of the          *)
(* filtered, searched and sorted collection, in order; over 25 records     *)
(* with limit 10, page 2 has 10 records and the links prev, next, first    *)
(* and last, and page 3 has 5 records and no next link.                    *)
C2_DataIsThePageWindow ==
    Listed =>
        LET list  == SortedOf(R)
            total == Len(list)
            lo    == Min((R.page - 1) * R.limit, total)
            hi    == Min(R.page * R.limit, total)
            data  == PayloadOf(A).data
        IN  /\ Len(data) = hi - lo
            /\ \A i \in 1..(hi - lo) : data[i] = DictOf(R, list[lo + i])
            /\ (total = 25 /\ R.limit = 10 /\ R.page = 2) =>
                   Len(data) = 10 /\ {"prev", "next", "first", "last"} \subseteq Rels
            /\ (total = 25 /\ R.limit = 10 /\ R.page = 3) =>
                   Len(data) = 5 /\ "next" \notin Rels

(* page 3 of 25 records by 10: the last, shorter page *)
C2_Witness ==
    /\ Listed
    /\ PayloadOf(A).total = 25
    /\ R.limit = 10
    /\ R.page = 3
    /\ Len(PayloadOf(A).data) = 5

(* a 200 response of any of the seven list endpoints to a request with     *)
(* page >= 1 and limit >= 1                                                *)
ListedAny ==
    /\ Answered
    /\ A.status = 200
    /\ R.page >= 1
    /\ R.limit >= 1

(* the relations of the link set of the payload, none when the payload     *)
(* has no links                                                            *)
LinkRels ==
    IF "links" \in DOMAIN PayloadOf(A) THEN RelsOf(R, PayloadOf(A).links) ELSE {}

(* C3: the link set of every list response has first and last, has prev    *)
(* iff page > 1, and has next iff page < last_page =                       *)
(* max(ceil(total/limit), 1)                                               *)
C3_LinkSet ==
    ListedAny =>
        /\ {"first", "last"} \subseteq LinkRels
        /\ "prev" \in LinkRels <=> R.page > 1
        /\ "next" \in LinkRels <=> R.page < LastPage(PayloadOf(A).total, R.limit)

(* C4: the page of the last link is max(ceil(total/limit), 1), so 1 and    *)
(* never 0 over an empty filtered collection                               *)
C4_LastLinkPage ==
    Listed =>
        LinkPage(R, PayloadOf(A).links, "last") = LastPage(PayloadOf(A).total, R.limit)

(* C5: no pagination link points below page 1 or beyond last_page =        *)
(* max(ceil(total/limit), 1), whatever page >= 1 was asked                 *)
C5_LinksWithinRange ==
    Listed =>
        \A rel \in Rels :
            LinkPage(R, PayloadOf(A).links, rel)
                \in 1..LastPage(PayloadOf(A).total, R.limit)

(* the rows a list endpoint lists when no page is cut out of them *)
Listable(request) ==
    CASE request.endpoint \in MainEndpoints -> PassingRows(request)
      [] request.endpoint = "user_posts" ->
             {i \in 1..Len(posts) : posts[i].owner_id = request.path_id}
      [] request.endpoint = "user_comments" ->
             {i \in 1..Len(comments) : comments[i].owner_id = request.path_id}
      [] request.endpoint = "post_comments" ->
             {i \in 1..Len(comments) : comments[i].post_id = request.path_id}
      [] request.endpoint = "posts_by_tag" ->
             {i \in 1..Len(posts) : tags_ilike(posts[i].tags, lower(request.path_id))}

(* the parent a relationship request names is stored *)
ParentStored(request) ==
    CASE request.endpoint \in {"user_posts", "user_comments"} ->
             exists_id(users, request.path_id)
      [] request.endpoint = "post_comments" -> exists_id(posts, request.path_id)
      [] OTHER -> TRUE

(* C6: on each of the seven list endpoints a page beyond the last is       *)
(* answered 200 with an empty data list and the unchanged total            *)
C6_PageBeyondLast ==
    (/\ Answered
     /\ R.limit >= 1
     /\ R.if_none_match = None
     /\ R.if_modified_since = None
     /\ ParentStored(R)
     /\ R.page > LastPage(Cardinality(Listable(R)), R.limit))
    => /\ A.status = 200
       /\ PayloadOf(A).data = <<>>
       /\ PayloadOf(A).total = Cardinality(Listable(R))

(* the request answered last matches the validators the handler computed *)
Revalidated ==
    \/ R.if_none_match = Some(LocalsOf(R, now).etag)
    \/ (R.if_modified_since # None
        /\ R.if_modified_since = Some(LocalsOf(R, now).last_modified))

(* C7: a list request that does not fail is answered 304 with an empty     *)
(* body iff If-None-Match equals the computed ETag or If-Modified-Since is *)
(* present and equals the computed Last-Modified, and 200 with the body in *)
(* the negotiated format otherwise; the same request repeated with the     *)
(* ETag just returned, on the same collection, is answered 304             *)
C7_NotModifiedIffValidatorMatches ==
    (Answered /\ R.endpoint \in MainEndpoints /\ A.status # 500) =>
        /\ A.status \in {200, 304}
        /\ A.status = 304 <=> Revalidated
        /\ A.status = 304 => A.body = <<>>
        /\ A.status = 200 =>
              /\ PayloadOf(A) = LocalsOf(R, now).response_data
              /\ A.headers.content_type = parse_accept_header(Some(R.accept))[2]
              /\ \A clock \in now..(StartTime + MaxTicks) :
                     Handle([R EXCEPT !.if_none_match = Some(A.headers.etag)],
                            clock).status = 304

(* a repeated request that carries only the Last-Modified it received *)
C7_Witness ==
    /\ Answered
    /\ R.endpoint \in MainEndpoints
    /\ R.if_none_match = None
    /\ R.if_modified_since # None
    /\ A.status = 304

Accepts == {Accept_json, Accept_xml}

Encodings == {Encoding_identity, Encoding_gzip}

Languages == {Str_en, Str_fr_FR}

(* the requests with the query parameters of the one answered last, under  *)
(* every Accept, Accept-Encoding and validator, in the given languages *)
SameQuery(languages) ==
    {[R EXCEPT !.accept = a, !.accept_encoding = e, !.accept_language = l,
               !.if_none_match = inm, !.if_modified_since = None] :
        a \in Accepts, e \in Encodings, l \in languages,
        inm \in {None, Some(<<"md5", <<>>>>)}}

(* C8, as the specification words it: same query parameters and same       *)
(* collection give the same ETag at every time and under every value of    *)
(* the other request headers, Accept-Language among them                   *)
C8_SameETagUnderAnyHeaders ==
    Listed =>
        \A request \in SameQuery(Languages), clock \in StartTime..(StartTime + MaxTicks) :
            LocalsOf(request, clock).etag = A.headers.etag

(* the locale the specification gives a request: fr when Accept-Language   *)
(* starts with "fr" in any case, en otherwise *)
LocaleOf(request) ==
    IF Len(request.accept_language) >= 2
       /\ request.accept_language[1] \in {102, 70}
       /\ request.accept_language[2] \in {114, 82}
    THEN Str_fr ELSE Str_en

(* the Accept-Language values that name the language of the request       *)
(* answered last: fr in any case and with any region, or anything else     *)
SameLanguage ==
    {l \in {Str_en, Str_fr_FR, Str_FR_CA, Str_en_FR, <<>>} :
        LocaleOf([R EXCEPT !.accept_language = l]) = LocaleOf(R)}

(* C8, amended: same query parameters, same collection and the same        *)
(* language of Accept-Language (fr or not fr) give the same ETag at every  *)
(* time and under every value of the other request headers, under every    *)
(* Accept-Language text of that language too                               *)
C8_SameETagUnderSameLanguage ==
    Listed =>
        \A request \in SameQuery(SameLanguage),
           clock \in StartTime..(StartTime + MaxTicks) :
            LocalsOf(request, clock).etag = A.headers.etag

(* a French request answered with dated records at the later clock tick *)
C8_Witness ==
    /\ Listed
    /\ R.accept_language = Str_fr_FR
    /\ PayloadOf(A).data # <<>>
    /\ now > StartTime

(* the timestamps of the filtered collection of a request *)
StampsOf(request) ==
    {IF request.endpoint = "users"
     THEN TableOf(request)[i].registerDate
     ELSE TableOf(request)[i].publishDate : i \in PassingRows(request)}

(* C9: Last-Modified is the latest timestamp of the whole filtered         *)
(* collection, whatever the page and the limit, and the time of handling   *)
(* only when the filtered collection is empty                              *)
C9_LastModifiedOfCollection ==
    Listed =>
        A.headers.last_modified =
            HttpDate(IF PassingRows(R) = {} THEN now
                     ELSE CHOOSE t \in StampsOf(R) : \A u \in StampsOf(R) : u <= t)

(* C10: the ETag is the hash of the payload as it is before the format and *)
(* the compression are applied, so requests that differ only in Accept and *)
(* Accept-Encoding receive the same ETag                                   *)
C10_ETagBeforeEncoding ==
    Listed =>
        /\ A.headers.etag = md5_sorted_json(PayloadOf(A))
        /\ \A a \in Accepts, e \in Encodings :
              LET other == Handle([R EXCEPT !.accept = a, !.accept_encoding = e], now)
              IN  /\ other.status = 200
                  /\ other.headers.etag = A.headers.etag
                  /\ PayloadOf(other) = PayloadOf(A)

(* an XML, gzip-compressed response that carries records *)
C10_Witness ==
    /\ Listed
    /\ R.accept = Accept_xml
    /\ R.accept_encoding = Encoding_gzip
    /\ A.headers.content_type = "application/xml"
    /\ A.body[1] = "gzip"
    /\ PayloadOf(A).data # <<>>

----------------------------------------------------------------------------
(* The functions of src/utils.py on their own: a caller hands one of them  *)
(* an argument and keeps the result. The tables are empty and take no part. *)
(* req holds the call, [call, entries, arg], and resp its result.          *)

(* the entries a header of the model is written from *)
MaxEntries == 2

Str_application_xml == <<97, 112, 112, 108, 105, 99, 97, 116, 105, 111, 110, 47, 120, 109, 108>>

Str_text_html == <<116, 101, 120, 116, 47, 104, 116, 109, 108>>

Str_Application_XML == <<65, 112, 112, 108, 105, 99, 97, 116, 105, 111, 110, 47, 88, 77, 76>>

Str_deflate == <<100, 101, 102, 108, 97, 116, 101>>

Str_GZIP == <<71, 90, 73, 80>>

(* a q parameter: its text, and the number the text denotes in thousandths *)
(* (None when the text is no number) *)
QParam(text, value) == [text |-> text, value |-> value]

QParams ==
    {QParam(<<48, 46, 53>>, Some(500)),
     QParam(<<48, 46, 56>>, Some(800)),
     QParam(<<48, 46, 57>>, Some(900)),
     QParam(<<49, 46, 48>>, Some(1000)),
     QParam(<<97, 98, 99>>, None)}

EntriesOf(names) == {[name |-> n, q |-> q] : n \in names, q \in {None} \cup {Some(p) : p \in QParams}}

AcceptEntries == EntriesOf({Accept_json, Str_application_xml, Str_text_html, Str_Application_XML})

EncodingEntries == EntriesOf({Str_br, Str_gzip, Str_identity, Str_deflate, Str_GZIP})

EntryLists(entries) == UNION {[1..n -> entries] : n \in 1..MaxEntries}

(* the header text of a list of entries: "name;q=text, name, ..." *)
RenderEntry(e) ==
    e.name \o (IF e.q = None THEN <<>> ELSE <<59, 113, 61>> \o Val(e.q).text)

RECURSIVE RenderHeader(_)
RenderHeader(es) ==
    IF Len(es) = 1 THEN RenderEntry(es[1])
    ELSE RenderEntry(es[1]) \o <<44, 32>> \o RenderHeader(Tail(es))

(* the arguments of a header function: no header, the empty header, and    *)
(* the header of every list of entries *)
HeaderCalls(call, entries) ==
    {[call |-> call, entries |-> <<>>, arg |-> a] : a \in {None, Some(<<>>)}}
    \cup {[call |-> call, entries |-> es, arg |-> Some(RenderHeader(es))] :
             es \in EntryLists(entries)}

Returns(c, result) ==
    /\ Idle
    /\ req' = Some(c)
    /\ resp' = Some(result)
    /\ UNCHANGED <<users, posts, comments, now>>

ParseAccept ==
    \E c \in HeaderCalls("parse_accept_header", AcceptEntries) :
        Returns(c, parse_accept_header(c.arg))

ChooseEncoding ==
    \E c \in HeaderCalls("choose_encoding", EncodingEntries) :
        Returns(c, choose_encoding(c.arg))

(* the outcome of a call: the value it returns or the exception it raises *)
Returned(value) == [raises |-> FALSE, value |-> value]

Raised(exception) == [raises |-> TRUE, value |-> exception]

(* remove_accents(s) as Python runs it on any argument:                    *)
(* unicodedata.normalize('NFD', None) raises TypeError                     *)
remove_accents_call(s) ==
    IF s = None THEN Raised("normalize() argument 2 must be str, not None")
    ELSE Returned(remove_accents(Val(s)))

(* safe_str(value) on a str or None: it raises nothing *)
safe_str_call(value) == Returned(safe_str(value))

(* the arguments of the text functions: None, the empty string and words   *)
(* with and without an accent *)
TextArgs == {None, Some(<<>>), Some(Str_cafe_acute), Some(Str_Cafe), Some(Str_Zed)}

RemoveAccents ==
    \E s \in TextArgs :
        Returns([call |-> "remove_accents", entries |-> <<>>, arg |-> s],
                remove_accents_call(s))

SafeStr ==
    \E value \in TextArgs :
        Returns([call |-> "safe_str", entries |-> <<>>, arg |-> value],
                safe_str_call(value))

InitUtils ==
    /\ users = <<>>
    /\ posts = <<>>
    /\ comments = <<>>
    /\ now = StartTime
    /\ req = None
    /\ resp = None

NextUtils ==
    \/ ParseAccept
    \/ ChooseEncoding
    \/ RemoveAccents
    \/ SafeStr
    \/ Forget

SpecUtils == InitUtils /\ [][NextUtils]_vars

----------------------------------------------------------------------------
(* the rank of an entry as the specification words it: its q, 1.0 when the *)
(* entry has no q, and 1.0 when its q is no number *)
RankOf(e) ==
    IF e.q = None THEN 1000
    ELSE IF Val(e.q).value = None THEN 1000
    ELSE Val(Val(e.q).value)

(* every q of the header is a number *)
WellFormed(es) == \A i \in 1..Len(es) : es[i].q # None => Val(es[i].q).value # None

(* among the entries at `eligible`, the one of highest rank, the earliest  *)
(* of them when several share it *)
Winner(es, eligible) ==
    CHOOSE i \in eligible :
        \A j \in eligible :
            RankOf(es[j]) < RankOf(es[i]) \/ (RankOf(es[j]) = RankOf(es[i]) /\ i <= j)

FormatOf(es) ==
    IF es = <<>> THEN "application/json"
    ELSE LET best == lower(es[Winner(es, 1..Len(es))].name)
         IN  IF Contains(best, Str_xml) THEN "application/xml"
             ELSE "application/json"

Recognized(es) ==
    {i \in 1..Len(es) : lower(es[i].name) \in {Str_br, Str_gzip, Str_identity}}

EncodingOf(es) ==
    IF Recognized(es) = {} THEN Str_identity
    ELSE lower(es[Winner(es, Recognized(es))].name)

CalledAccept == Answered /\ R.call = "parse_accept_header"

CalledEncoding == Answered /\ R.call = "choose_encoding"

(* C11: the format is that of the Accept entry of highest q (1.0 when the  *)
(* entry has none; the first of the header among equals): xml when its     *)
(* media type holds "xml" in any case, json otherwise and for an absent or *)
(* empty header; "application/xml;q=0.9, application/json;q=1.0" gives     *)
(* JSON                                                                    *)
C11_FormatOfBestAccept ==
    (CalledAccept /\ WellFormed(R.entries)) =>
        /\ A[2] = FormatOf(R.entries)
        /\ R.arg = Some(<<97, 112, 112, 108, 105, 99, 97, 116, 105, 111, 110, 47, 120, 109, 108, 59, 113, 61, 48, 46, 57, 44, 32, 97, 112, 112, 108, 105, 99, 97, 116, 105, 111, 110, 47, 106, 115, 111, 110, 59, 113, 61, 49, 46, 48>>)
               => A[2] = "application/json"

(* the header of the example has been parsed *)
C11_Witness ==
    /\ CalledAccept
    /\ R.arg = Some(<<97, 112, 112, 108, 105, 99, 97, 116, 105, 111, 110, 47, 120, 109, 108, 59, 113, 61, 48, 46, 57, 44, 32, 97, 112, 112, 108, 105, 99, 97, 116, 105, 111, 110, 47, 106, 115, 111, 110, 59, 113, 61, 49, 46, 48>>)
    /\ A[2] = "application/json"

(* C12: the encoding is, among the Accept-Encoding entries that name br,   *)
(* gzip or identity, the one of highest q (the first of the header among   *)
(* equals), and identity when no entry is recognized or the header is      *)
(* absent or empty; "br;q=0.5, gzip;q=0.8" gives gzip                      *)
C12_EncodingOfBestRecognized ==
    (CalledEncoding /\ WellFormed(R.entries)) =>
        /\ A = EncodingOf(R.entries)
        /\ R.arg = Some(Encoding_gzip) => A = Str_gzip

(* an unrecognized entry of higher q before a recognized one *)
C12_Witness ==
    /\ CalledEncoding
    /\ Len(R.entries) = 2
    /\ R.entries[1].name = Str_deflate
    /\ R.entries[1].q = None
    /\ R.entries[2].name = Str_br
    /\ R.entries[2].q # None
    /\ A = Str_br

(* C13: in Accept and in Accept-Encoding alike, an entry whose q is no     *)
(* number is ranked as if its q were 1.0, and the call returns             *)
C13_MalformedQRanksAsOne ==
    (Answered /\ ~WellFormed(R.entries)) =>
        /\ R.call = "parse_accept_header" => A[2] = FormatOf(R.entries)
        /\ R.call = "choose_encoding" => A = EncodingOf(R.entries)

----------------------------------------------------------------------------
(* the date fields of a record of the payload *)
DateFields(request) ==
    IF request.endpoint = "users" THEN {"registerDate", "dateOfBirth"}
    ELSE {"publishDate"}

DateFormatOf(locale) == IF locale = Str_fr THEN "d/m/Y" ELSE "Y-m-d"

(* C14: the locale is fr iff Accept-Language starts with "fr" in any case, *)
(* en otherwise, and the one locale of the request is that of the          *)
(* Content-Language header and of every date of the payload                *)
C14_LocaleOfAcceptLanguage ==
    Listed =>
        /\ A.headers.content_language = LocaleOf(R)
        /\ \A i \in 1..Len(PayloadOf(A).data), f \in DateFields(R) :
              LET d == PayloadOf(A).data[i][f]
              IN  d # None => Val(d)[1] = DateFormatOf(LocaleOf(R))

(* an upper-case French header answered with dated records *)
C14_Witness ==
    /\ Listed
    /\ R.accept_language = Str_FR_CA
    /\ A.headers.content_language = Str_fr
    /\ PayloadOf(A).data # <<>>
    /\ Val(PayloadOf(A).data[1][CHOOSE f \in DateFields(R) : f # "dateOfBirth"])[1] = "d/m/Y"

(* the fields a search looks into, and the rows it keeps as the            *)
(* specification words it: a searchable field, accent-stripped and         *)
(* lower-cased, holds the accent-stripped, lower-cased term                *)
SearchFields(request) ==
    CASE request.endpoint = "users" -> {"firstName", "lastName", "email"}
      [] request.endpoint = "posts" -> {"text"}
      [] request.endpoint = "comments" -> {"message"}

Kept(request) ==
    {i \in 1..Len(TableOf(request)) :
        /\ Passes([request EXCEPT !.search = None], TableOf(request)[i])
        /\ \E f \in SearchFields(request) :
               Contains(Fold(TableOf(request)[i][f]), Fold(Val(request.search)))}

DataIds == {PayloadOf(A).data[i].id : i \in 1..Len(PayloadOf(A).data)}

(* C15: under a search term the list keeps exactly the rows with a         *)
(* searchable field that holds the term, both accent-stripped and          *)
(* lower-cased; "cafe" and its accented spelling normalize to the same     *)
(* text, so each finds the rows that hold the other                        *)
C15_SearchKeepsNormalizedMatches ==
    (Listed /\ Given(R.search)) =>
        /\ PayloadOf(A).total = Cardinality(Kept(R))
        /\ DataIds \subseteq {TableOf(R)[i].id : i \in Kept(R)}
        /\ Cardinality(Kept(R)) <= R.limit /\ R.page = 1
               => DataIds = {TableOf(R)[i].id : i \in Kept(R)}
        /\ Fold(Str_cafe_acute) = Fold(Str_cafe)
        /\ \A i \in 1..Len(TableOf(R)), f \in SearchFields(R) :
              (/\ Passes([R EXCEPT !.search = None], TableOf(R)[i])
               /\ \/ R.search = Some(Str_cafe)
                        /\ Contains(TableOf(R)[i][f], Str_cafe_acute)
                  \/ R.search = Some(Str_cafe_acute)
                        /\ Contains(lower(TableOf(R)[i][f]), Str_cafe))
              => i \in Kept(R)

(* an accented term that finds a row spelled without the accent, next to a *)
(* row it drops *)
C15_Witness ==
    /\ Listed
    /\ R.endpoint = "users"
    /\ R.search = Some(Str_cafe_acute)
    /\ \E i \in 1..Len(users) : users[i].firstName = Str_Cafe /\ users[i].id \in DataIds
    /\ \E i \in 1..Len(users) : users[i].firstName = Str_Zed /\ users[i].id \notin DataIds

----------------------------------------------------------------------------
(* the sortable fields of each entity, and the ones that hold text *)
Whitelist(request) ==
    CASE request.endpoint = "users" ->
             {"firstName", "lastName", "email", "registerDate", "dateOfBirth"}
      [] request.endpoint = "posts" -> {"text", "publishDate", "likes"}
      [] request.endpoint = "comments" -> {"message", "publishDate"}

TextFields == {"firstName", "lastName", "email", "text", "message"}

(* the position in its table of the row a record of the payload shows *)
IndexOf(request, id) == CHOOSE i \in 1..Len(TableOf(request)) : TableOf(request)[i].id = id

DataIndex(k) == IndexOf(R, PayloadOf(A).data[k].id)

(* the sort key of a row: the text accent-stripped and lower-cased, a      *)
(* number or a date as it is (<<n>>, so that keys compare as sequences)    *)
SortKey(request, row) ==
    IF request.sort_by \in TextFields THEN Fold(row[request.sort_by])
    ELSE IF request.sort_by = "dateOfBirth" THEN row.dateOfBirth
    ELSE <<row[request.sort_by]>>

Descending(request) == AsciiLower(request.sort_order) = Str_desc

(* C16: under a whitelisted sort_by the records come in non-decreasing     *)
(* (asc) or non-increasing (desc) order of the sort key, and in both       *)
(* directions records of equal keys keep the order of the store            *)
C16_SortedAndStable ==
    (Listed /\ R.sort_by \in Whitelist(R)) =>
        \A k \in 1..(Len(PayloadOf(A).data) - 1) :
            LET a == SortKey(R, TableOf(R)[DataIndex(k)])
                b == SortKey(R, TableOf(R)[DataIndex(k + 1)])
            IN  /\ IF Descending(R) THEN ~StrLess(a, b) ELSE ~StrLess(b, a)
                /\ a = b => DataIndex(k) < DataIndex(k + 1)

(* a descending sort whose page holds records of equal and of different    *)
(* keys *)
C16_Witness ==
    /\ Listed
    /\ R.sort_by \in Whitelist(R)
    /\ Descending(R)
    /\ \E k \in 1..(Len(PayloadOf(A).data) - 1) :
           SortKey(R, TableOf(R)[DataIndex(k)]) = SortKey(R, TableOf(R)[DataIndex(k + 1)])
    /\ \E k \in 1..(Len(PayloadOf(A).data) - 1) :
           StrLess(SortKey(R, TableOf(R)[DataIndex(k + 1)]),
                   SortKey(R, TableOf(R)[DataIndex(k)]))

(* C17: under a sort_by outside the whitelist the request does not fail    *)
(* and the records are the filtered, searched rows in the order of the     *)
(* store, whatever sort_order is                                           *)
C17_UnlistedSortKeepsStoreOrder ==
    (Answered /\ R.endpoint \in MainEndpoints /\ R.sort_by \notin Whitelist(R)
        /\ R.page >= 1 /\ R.limit >= 1) =>
        /\ A.status \in {200, 304}
        /\ A.status = 200 =>
              \A k \in 1..Len(PayloadOf(A).data) :
                  /\ DataIndex(k) \in PassingRows(R)
                  /\ Cardinality({j \in PassingRows(R) : j < DataIndex(k)})
                         = (R.page - 1) * R.limit + k - 1

(* sort_by=id with sort_order=DESC over several rows *)
C17_Witness ==
    /\ Listed
    /\ R.sort_by = "id"
    /\ Descending(R)
    /\ Len(PayloadOf(A).data) >= 2
    /\ DataIndex(1) < DataIndex(2)

----------------------------------------------------------------------------
(* C18: the text normalizer never raises: on None and on the empty string  *)
(* it returns its argument unchanged or an empty text                      *)
C18_NormalizerNeverRaises ==
    (Answered /\ R.call \in {"remove_accents", "safe_str"}) =>
        /\ ~A.raises
        /\ R.arg \in {None, Some(<<>>)} => A.value \in {None, <<>>, R.arg}

----------------------------------------------------------------------------
(* the encoding a body is compressed with, read off the body *)
CompressionOf(body) ==
    IF body[1] = "br" THEN Str_br
    ELSE IF body[1] = "gzip" THEN Str_gzip
    ELSE Str_identity

(* the media type a body is serialized in, read off the body *)
MediaTypeOf(body) ==
    LET plain == IF body[1] \in {"br", "gzip"} THEN body[2] ELSE body
    IN  IF plain[1] = "xml" THEN "application/xml" ELSE "application/json"

(* C19: a 200 response of the users, posts and comments lists carries      *)
(* Content-Type of the negotiated format, Content-Encoding of the          *)
(* negotiated encoding over a body compressed with it, Content-Language of *)
(* the locale, Cache-Control: public, max-age=60, must-revalidate, the     *)
(* computed ETag and Last-Modified, and Vary: Accept-Encoding,             *)
(* Accept-Language                                                         *)
C19_ResponseHeaders ==
    Listed =>
        /\ A.headers.content_type = parse_accept_header(Some(R.accept))[2]
        /\ A.headers.content_type = MediaTypeOf(A.body)
        /\ A.headers.content_encoding = choose_encoding(Some(R.accept_encoding))
        /\ A.headers.content_encoding = CompressionOf(A.body)
        /\ A.headers.content_language = LocaleOf(R)
        /\ A.headers.cache_control = "public, max-age=60, must-revalidate"
        /\ A.headers.etag = LocalsOf(R, now).etag
        /\ A.headers.last_modified = LocalsOf(R, now).last_modified
        /\ A.headers.vary = "Accept-Encoding, Accept-Language"

(* C19, as the handlers answer: the same headers, with Vary:               *)
(* Accept-Encoding, Accept-Language on the users and comments lists and    *)
(* Vary: Accept-Language, Accept-Encoding on the posts list                *)
C19_ResponseHeadersVaryPerEndpoint ==
    Listed =>
        /\ A.headers.content_type = parse_accept_header(Some(R.accept))[2]
        /\ A.headers.content_type = MediaTypeOf(A.body)
        /\ A.headers.content_encoding = choose_encoding(Some(R.accept_encoding))
        /\ A.headers.content_encoding = CompressionOf(A.body)
        /\ A.headers.content_language = LocaleOf(R)
        /\ A.headers.cache_control = "public, max-age=60, must-revalidate"
        /\ A.headers.etag = LocalsOf(R, now).etag
        /\ A.headers.last_modified = LocalsOf(R, now).last_modified
        /\ R.endpoint \in {"users", "comments"} =>
               A.headers.vary = "Accept-Encoding, Accept-Language"
        /\ R.endpoint = "posts" =>
               A.headers.vary = "Accept-Language, Accept-Encoding"

(* the posts list answered in xml under gzip, with its own Vary value *)
C19_Witness ==
    /\ Listed
    /\ R.endpoint = "posts"
    /\ R.accept = Accept_xml
    /\ R.accept_encoding = Encoding_gzip
    /\ A.headers.content_type = "application/xml"
    /\ A.headers.content_encoding = Str_gzip
    /\ A.body[1] = "gzip"
    /\ A.headers.vary = "Accept-Language, Accept-Encoding"
    /\ PayloadOf(A).data # <<>>

(* the request makes the list pipeline raise: a limit of 0 divides by zero *)
(* where the last page is computed, and a sort of users by dateOfBirth     *)
(* compares a missing date                                                 *)
SortFails(request) ==
    /\ request.endpoint = "users"
    /\ request.sort_by = "dateOfBirth"
    /\ Cardinality(PassingRows(request)) >= 2
    /\ \E i \in PassingRows(request) : users[i].dateOfBirth = None

DivisionFails(request) ==
    /\ request.limit = 0
    /\ request.endpoint # "posts_by_tag"
    /\ request.endpoint \notin MainEndpoints
           => request.path_id[1] = "uuid" /\ ParentStored(request)

(* C20: in each list handler an exception raised at any stage of the       *)
(* pipeline is answered with status 500 and a JSON body that holds the     *)
(* text of the exception                                                   *)
C20_ExceptionsBecome500WithText ==
    (Answered /\ "endpoint" \in DOMAIN R /\ (SortFails(R) \/ DivisionFails(R))) =>
        /\ A.status = 500
        /\ A.headers.content_type = "application/json"
        /\ "error" \in DOMAIN PayloadOf(A)
        /\ PayloadOf(A).error = (IF SortFails(R) THEN TypeError ELSE ZeroDivisionError)

----------------------------------------------------------------------------
(* the list endpoints under a parent user or post *)
ChildEndpoints == {"user_posts", "user_comments", "post_comments"}

(* C22: the user-posts, user-comments and post-comments lists answer 404   *)
(* when the well-formed identifier names no stored parent, and 200 when it *)
(* names one, with or without child records, for every limit of 1 or more  *)
C22_ParentDecidesStatus ==
    (Answered /\ "endpoint" \in DOMAIN R /\ R.endpoint \in ChildEndpoints
              /\ validate_uuid(R.path_id) /\ R.limit >= 1) =>
        A.status = (IF ParentStored(R) THEN 200 ELSE 404)

----------------------------------------------------------------------------
(* The single-record handlers: src/routers/users.py, posts.py, comments.py *)
(* A handler runs in a worker thread with a database session of its own,   *)
(* and every statement it sends to the database is a step of its own:      *)
(* between two steps of one handler the other handlers read and commit. A  *)
(* SELECT reads the committed rows; the INSERT, UPDATE and DELETE          *)
(* statements of one db.commit() are one transaction. req[w] is the        *)
(* request worker w is handling, with the handler's position (stage) and   *)
(* what its session holds (held); resp[w] is the response once the handler *)
(* has returned or raised. The clock does not tick while they run.         *)

Store == <<users, posts, comments>>

(* a returned dict or model, rendered as JSON with status 200 *)
Ok(content) ==
    [status  |-> 200,
     body    |-> json_bytes(content),
     headers |-> [content_type |-> "application/json"]]

(* is_valid_uuid(val): TRUE iff uuid.UUID() accepts it *)
is_valid_uuid(val) == val[1] = "uuid"

(* db.query(T).filter(T.id == id).first() on a table that holds the id *)
first_by_id(table, id) == table[CHOOSE i \in 1..Len(table) : table[i].id = id]

(* likes or db_post.likes: the right operand when the left one is 0 *)
or_int(a, b) == IF a = 0 THEN b ELSE a

(* tags if tags else db_post.tags: the stored list when the given is empty *)
or_list(a, b) == IF a = <<>> THEN b ELSE a

user_links(user_id) ==
    <<[rel |-> "self", href |-> <<"/api/v1/users/", user_id>>],
      [rel |-> "posts", href |-> <<"/api/v1/users/", user_id, "/posts">>],
      [rel |-> "comments", href |-> <<"/api/v1/users/", user_id, "/comments">>]>>

(* the user_dict of create_user and update_user: the dates in isoformat *)
user_read(u) ==
    [id           |-> u.id,
     firstName    |-> u.firstName,
     lastName     |-> u.lastName,
     email        |-> u.email,
     dateOfBirth  |-> u.dateOfBirth,
     registerDate |-> u.registerDate,
     links        |-> user_links(u.id)]

(* GET /api/v1/users/{user_id}: one SELECT; the dates go through           *)
(* format_date(..., "en")                                                  *)
get_user(user_table, user_id) ==
    IF ~is_valid_uuid(user_id)
    THEN HTTPException(422, <<"PARAMS_NOT_VALID: user_id invalid UUID">>)
    ELSE IF ~exists_id(user_table, user_id) THEN NotFound("user")
    ELSE LET user == first_by_id(user_table, user_id)
         IN  Ok([id           |-> safe_str(user.id),
                 firstName    |-> safe_str(user.firstName),
                 lastName     |-> safe_str(user.lastName),
                 email        |-> safe_str(user.email),
                 dateOfBirth  |-> format_date(user.dateOfBirth, Str_en),
                 registerDate |-> format_date(Some(user.registerDate), Str_en),
                 links        |-> user_links(user.id)])

(* db.query(User).filter(User.email == user.email).first() finds a row *)
create_user_existing(user_table, user) ==
    \E i \in 1..Len(user_table) : user_table[i].email = user.email

(* the rows the handlers build: User(...), Post(...), Comment(...) *)
db_user(id, user, clock) ==
    [id           |-> id,
     firstName    |-> user.firstName,
     lastName     |-> user.lastName,
     email        |-> user.email,
     dateOfBirth  |-> user.dateOfBirth,
     registerDate |-> clock]

db_post(id, post, clock) ==
    [id          |-> id,
     text        |-> post.text,
     owner_id    |-> post.owner_id,
     publishDate |-> clock,
     likes       |-> post.likes,
     tags        |-> post.tags]

db_comment(id, comment, clock) ==
    [id          |-> id,
     message     |-> comment.message,
     owner_id    |-> comment.owner_id,
     post_id     |-> comment.post_id,
     publishDate |-> clock]

(* `if db_user.email != user_data.email` of update_user, without the       *)
(* comparison                                                              *)
email_differs_never(row, body) == FALSE

(* `if db_user.email != user_data.email` of update_user *)
email_differs(row, body) == row.email # body.email

(* `if post_data.owner_id != db_post.owner_id` of update_post and          *)
(* `if comment.owner_id != db_comment.owner_id` of update_comment, without *)
(* the comparison                                                          *)
owner_differs_never(row, body) == FALSE

(* `if post_data.owner_id != db_post.owner_id` of update_post and          *)
(* `if comment.owner_id != db_comment.owner_id` of update_comment          *)
owner_differs(row, body) == body.owner_id # row.owner_id

(* the attributes an update handler assigns to the row it loaded:          *)
(*   update_user: firstName, lastName, dateOfBirth (and the columns the    *)
(*     model leaves out); the email is compared, not assigned              *)
(*   update_post: text; likes = post_data.likes or db_post.likes;          *)
(*     tags = json.dumps(post_data.tags) if post_data.tags else            *)
(*     db_post.tags; the owner_id is compared, not assigned                *)
(*   update_comment: message; the post_id of the body is not read          *)
assigned(endpoint, row, body) ==
    CASE endpoint = "update_user" ->
           [firstName |-> body.firstName, lastName |-> body.lastName,
            dateOfBirth |-> body.dateOfBirth]
      [] endpoint = "update_post" ->
           [text  |-> body.text,
            likes |-> or_int(body.likes, row.likes),
            tags  |-> or_list(body.tags, row.tags)]
      [] endpoint = "update_comment" -> [message |-> body.message]

(* the columns of the UPDATE statement a flush sends: the attributes whose *)
(* assigned value differs from the loaded one                              *)
changed(row, values) == {c \in DOMAIN values : values[c] # row[c]}

(* UPDATE table SET the changed columns WHERE id = row.id: the other       *)
(* columns keep what the table holds now                                   *)
update_where_id(table, row, values) ==
    [i \in 1..Len(table) |->
        IF table[i].id = row.id
        THEN [c \in DOMAIN table[i] |->
                 IF c \in changed(row, values) THEN values[c] ELSE table[i][c]]
        ELSE table[i]]

(* DELETE FROM table WHERE id = ?, once for each identifier: an identifier *)
(* that matches no row deletes nothing                                     *)
delete_where_id(table, ids) == SelectSeq(table, LAMBDA row : row.id \notin ids)

----------------------------------------------------------------------------
(* The single-record requests: a request is [endpoint, path_id, body], the *)
(* handler's name, the identifier of the path and the JSON body.           *)

UserIds == {UserId(i) : i \in 1..MaxRecords}

PostIds == {PostId(i) : i \in 1..MaxRecords}

CommentIds == {CommentId(i) : i \in 1..MaxComments}

(* the identifiers uuid4() gives the rows the create handlers store when   *)
(* all the handlers run: MaxCreated users and posts, MaxComments comments  *)
OwnerPool == {UserId(i) : i \in 1..MaxCreated}

PostPool == {PostId(i) : i \in 1..MaxCreated}

(* the identifiers the requests name in their path: those of the pool,     *)
(* those of the stored rows and a malformed one                            *)
Paths(table, pool) ==
    pool \cup {table[i].id : i \in 1..Len(table)} \cup {MalformedId}

(* the path identifier and the body of the update requests: the malformed  *)
(* identifier comes with one body                                          *)
Updates(paths, bodies) ==
    {u \in paths \X bodies : u[1] = MalformedId => u[2] = CHOOSE b \in bodies : TRUE}

Emails == {<<97, 64, 120>>, <<98, 64, 120>>}

(* UserCreate, PostCreate and CommentCreate bodies that pass validation:   *)
(* two names under the first email and one under the second; a post body   *)
(* without likes and tags and one with both; every owner                   *)
UserBodies ==
    {[firstName |-> n, lastName |-> Str_Li, email |-> e, dateOfBirth |-> None] :
        n \in {Str_Zed, Str_Cafe}, e \in Emails}
    \ {[firstName |-> Str_Cafe, lastName |-> Str_Li, email |-> <<98, 64, 120>>,
         dateOfBirth |-> None]}

PostBodies ==
    {[text |-> Str_Zed, owner_id |-> o, likes |-> 0, tags |-> <<>>] : o \in UserIds}
    \cup {[text |-> Str_cafe_acute, owner_id |-> o, likes |-> l, tags |-> <<Tag_x>>] :
             o \in UserIds, l \in 1..MaxLikes}

CommentBodies ==
    [message : Texts, owner_id : UserIds, post_id : PostPool]

Request(endpoint, path_id, body) ==
    [endpoint |-> endpoint, path_id |-> path_id, body |-> body]

Workers == 1..MaxWorkers

Free(w) == req[w] = None

At(w, stage) == req[w] # None /\ Val(req[w]).stage = stage

(* no response waits to go out. Sending a response reads and writes        *)
(* nothing that a handler reads or writes, so the order of the two does    *)
(* not matter; the model sends a response before the next statement of any *)
(* handler runs                                                            *)
Sent == \A v \in Workers : ~At(v, "returned")

(* the pool hands a request to its first free worker *)
Takes(w) == Sent /\ Free(w) /\ \A v \in Workers : v < w => ~Free(v)

(* worker w runs one of these handlers and stands at this stage *)
Runs(w, endpoints, stage) ==
    Sent /\ At(w, stage) /\ Val(req[w]).endpoint \in endpoints

Staged(request, stage, held) ==
    [endpoint |-> request.endpoint, path_id |-> request.path_id,
     body |-> request.body, stage |-> stage, held |-> held]

(* the identifiers a request in hand names: in its path, in its body and   *)
(* in what its session holds                                               *)
IdsInHand(job) ==
    {job.path_id}
    \cup (IF job.body = None THEN {}
          ELSE {Val(job.body)[f] : f \in DOMAIN Val(job.body) \cap {"owner_id", "post_id"}})
    \cup (IF job.held = None THEN {}
          ELSE {job.held[f] : f \in DOMAIN job.held \cap {"id"}}
               \cup (IF "row" \in DOMAIN job.held
                     THEN {job.held.row[f] :
                              f \in DOMAIN job.held.row \cap {"id", "owner_id", "post_id"}}
                     ELSE {})
               \cup (IF "posts" \in DOMAIN job.held
                     THEN {job.held.posts[i] : i \in 1..Len(job.held.posts)}
                     ELSE {})
               \cup (IF "comments" \in DOMAIN job.held THEN job.held.comments ELSE {}))

(* str(uuid.uuid4()): an identifier that no row and no request in hand     *)
(* names                                                                   *)
uuid4(pool) ==
    {id \in pool :
        /\ ~exists_id(users, id) /\ ~exists_id(posts, id) /\ ~exists_id(comments, id)
        /\ \A i \in 1..Len(posts) : posts[i].owner_id # id
        /\ \A i \in 1..Len(comments) :
               comments[i].owner_id # id /\ comments[i].post_id # id
        /\ \A w \in Workers : req[w] # None => id \notin IdsInHand(Val(req[w]))}

(* worker w's handler goes on to its next statement *)
Proceed(w, request, stage, held) ==
    /\ req' = [req EXCEPT ![w] = Some(Staged(request, stage, held))]
    /\ UNCHANGED <<now, resp>>

(* worker w's handler returns or raises: its response goes out *)
Return(w, request, response) ==
    /\ req' = [req EXCEPT ![w] = Some(Staged(request, "returned", None))]
    /\ resp' = [resp EXCEPT ![w] = Some(response)]
    /\ UNCHANGED now

----------------------------------------------------------------------------
(* The first statement of each handler: the request arrives, the path      *)
(* identifier is validated and the first query runs                        *)

GetUser ==
    \E w \in Workers, user_id \in UserIds \cup {MalformedId} :
        /\ Takes(w)
        /\ Return(w, Request("get_user", user_id, None), get_user(users, user_id))
        /\ UNCHANGED Store

(* POST /api/v1/users: the query for the email, then User(id=uuid4(), ...) *)
(* and db.add                                                              *)
create_user_request(pool) ==
    \E w \in Workers, user \in UserBodies :
        LET request == Request("create_user", None, Some(user))
        IN  /\ Takes(w)
            /\ IF create_user_existing(users, user)
               THEN Return(w, request, HTTPException(400, <<"Email already exists">>))
               ELSE \E id \in uuid4(pool) : Proceed(w, request, "added", [id |-> id])
            /\ UNCHANGED Store

CreateUser == create_user_request(OwnerPool)

(* create_user when the user handlers run alone *)
CreateUserOfMany == create_user_request(UserIds)

(* PUT /api/v1/users/{user_id}: up to the assignments *)
UpdateUser ==
    \E w \in Workers, u \in Updates(UserIds \cup {MalformedId}, UserBodies) :
        LET user_id   == u[1]
            user_data == u[2]
            request   == Request("update_user", user_id, Some(user_data))
        IN  /\ Takes(w)
            /\ IF ~validate_uuid(user_id) THEN Return(w, request, InvalidUuid("user_id"))
               ELSE IF ~exists_id(users, user_id) THEN Return(w, request, NotFound("user"))
               ELSE IF email_differs(first_by_id(users, user_id), user_data)
               THEN Return(w, request, HTTPException(400, <<"Cannot update email">>))
               ELSE Proceed(w, request, "assigned", [row |-> first_by_id(users, user_id)])
            /\ UNCHANGED Store

(* DELETE /api/v1/users/{user_id}: the identifier is not validated *)
DeleteUser ==
    \E w \in Workers, user_id \in UserIds \cup {MalformedId} :
        LET request == Request("delete_user", user_id, None)
        IN  /\ Takes(w)
            /\ IF ~exists_id(users, user_id) THEN Return(w, request, NotFound("user"))
               ELSE Proceed(w, request, "found", [posts |-> <<>>, comments |-> {}, next |-> 0])
            /\ UNCHANGED Store

(* POST /api/v1/posts: the query for the owner, then Post(id=uuid4(), ...) *)
CreatePost ==
    \E w \in Workers, post \in PostBodies :
        LET request == Request("create_post", None, Some(post))
        IN  /\ Takes(w)
            /\ IF ~exists_id(users, post.owner_id)
               THEN Return(w, request, NotFound("owner"))
               ELSE \E id \in uuid4(PostPool) : Proceed(w, request, "added", [id |-> id])
            /\ UNCHANGED Store

(* PUT /api/v1/posts/{post_id}: up to the assignments *)
UpdatePost ==
    \E w \in Workers, u \in Updates(Paths(posts, PostPool), PostBodies) :
        LET post_id   == u[1]
            post_data == u[2]
            request   == Request("update_post", post_id, Some(post_data))
        IN  /\ Takes(w)
            /\ IF ~validate_uuid(post_id) THEN Return(w, request, InvalidUuid("post_id"))
               ELSE IF ~exists_id(posts, post_id) THEN Return(w, request, NotFound("post"))
               ELSE IF owner_differs(first_by_id(posts, post_id), post_data)
               THEN Return(w, request, HTTPException(400, <<"Cannot change owner_id">>))
               ELSE Proceed(w, request, "assigned", [row |-> first_by_id(posts, post_id)])
            /\ UNCHANGED Store

(* GET /api/v1/posts/{post_id}: the query for the post *)
GetPost ==
    \E w \in Workers, post_id \in Paths(posts, PostPool) :
        LET request == Request("get_post", post_id, None)
        IN  /\ Takes(w)
            /\ IF ~validate_uuid(post_id) THEN Return(w, request, InvalidUuid("post_id"))
               ELSE IF ~exists_id(posts, post_id) THEN Return(w, request, NotFound("post"))
               ELSE Proceed(w, request, "loaded", [row |-> first_by_id(posts, post_id)])
            /\ UNCHANGED Store

(* DELETE /api/v1/posts/{post_id}: the query for the post *)
DeletePost ==
    \E w \in Workers, post_id \in Paths(posts, PostPool) :
        LET request == Request("delete_post", post_id, None)
        IN  /\ Takes(w)
            /\ IF ~validate_uuid(post_id) THEN Return(w, request, InvalidUuid("post_id"))
               ELSE IF ~exists_id(posts, post_id) THEN Return(w, request, NotFound("post"))
               ELSE Proceed(w, request, "found", [comments |-> {}])
            /\ UNCHANGED Store

(* POST /api/v1/comments: the query for the user *)
CreateComment ==
    \E w \in Workers, comment \in CommentBodies :
        /\ Takes(w)
        /\ Proceed(w, Request("create_comment", None, Some(comment)), "queried",
                   [user |-> exists_id(users, comment.owner_id)])
        /\ UNCHANGED Store

(* create_comment: the query for the post, `if not user or not post`, then *)
(* Comment(id=uuid4(), ...)                                                *)
SelectPost ==
    \E w \in Workers :
        /\ Runs(w, {"create_comment"}, "queried")
        /\ IF ~Val(req[w]).held.user \/ ~exists_id(posts, Val(Val(req[w]).body).post_id)
           THEN Return(w, Val(req[w]), NotFound("user or post"))
           ELSE \E id \in uuid4(CommentIds) : Proceed(w, Val(req[w]), "added", [id |-> id])
        /\ UNCHANGED Store

(* GET /api/v1/comments/{comment_id}: the query for the comment *)
GetComment ==
    \E w \in Workers, comment_id \in Paths(comments, CommentIds) :
        LET request == Request("get_comment", comment_id, None)
        IN  /\ Takes(w)
            /\ IF ~validate_uuid(comment_id)
               THEN Return(w, request, InvalidUuid("comment_id"))
               ELSE IF ~exists_id(comments, comment_id)
               THEN Return(w, request, NotFound("comment"))
               ELSE Proceed(w, request, "loaded", [row |-> first_by_id(comments, comment_id)])
            /\ UNCHANGED Store

(* PUT /api/v1/comments/{comment_id}: up to the assignment *)
UpdateComment ==
    \E w \in Workers, u \in Updates(Paths(comments, CommentIds), CommentBodies) :
        LET comment_id == u[1]
            comment    == u[2]
            request    == Request("update_comment", comment_id, Some(comment))
        IN  /\ Takes(w)
            /\ IF ~validate_uuid(comment_id)
               THEN Return(w, request, InvalidUuid("comment_id"))
               ELSE IF ~exists_id(comments, comment_id)
               THEN Return(w, request, NotFound("comment"))
               ELSE IF owner_differs(first_by_id(comments, comment_id), comment)
               THEN Return(w, request, HTTPException(400, <<"Cannot change owner">>))
               ELSE Proceed(w, request, "assigned",
                            [row |-> first_by_id(comments, comment_id)])
            /\ UNCHANGED Store

(* DELETE /api/v1/comments/{comment_id}: the query and db.delete; a        *)
(* comment has no relationship that cascades                               *)
DeleteComment ==
    \E w \in Workers, comment_id \in Paths(comments, CommentIds) :
        LET request == Request("delete_comment", comment_id, None)
        IN  /\ Takes(w)
            /\ IF ~validate_uuid(comment_id)
               THEN Return(w, request, InvalidUuid("comment_id"))
               ELSE IF ~exists_id(comments, comment_id)
               THEN Return(w, request, NotFound("comment"))
               ELSE Proceed(w, request, "marked", [comments |-> {comment_id}])
            /\ UNCHANGED Store

----------------------------------------------------------------------------
(* The later statements of the handlers *)

(* posts.owner_id, comments.owner_id and comments.post_id are declared     *)
(* ForeignKey("users.id") and ForeignKey("posts.id"). The engine that the  *)
(* database module configures checks the declarations at each statement   *)
(* or leaves them unchecked; that module is not part of the source, and    *)
(* a commit has both outcomes                                              *)
ForeignKey == BOOLEAN

(* relationships declared without cascade="all, delete": db.delete loads   *)
(* no child to delete                                                      *)
ids_where_without_cascade(table, column, id) == {}

(* the identifiers of the rows a query of a foreign key returns *)
ids_where(table, column, id) ==
    {table[i].id : i \in {j \in 1..Len(table) : table[j][column] = id}}

(* db.delete(user), db.delete(db_post): the session walks the              *)
(* relationships that cascade the delete and loads each with a SELECT of   *)
(* its own: User.posts, then Post.comments of each of these posts, then    *)
(* User.comments; for a post its Post.comments                             *)
LoadCascade ==
    \E w \in Workers :
        LET job  == Val(req[w])
            held == job.held
        IN  /\ UNCHANGED Store
            /\ \/ /\ Runs(w, {"delete_user"}, "found")
                  /\ Proceed(w, job, "cascade",
                             [posts    |-> SelectSeq([i \in 1..Len(posts) |-> posts[i].id],
                                              LAMBDA id :
                                                  id \in ids_where(posts, "owner_id",
                                                                   job.path_id)),
                              comments |-> {},
                              next     |-> 1])
               \/ /\ Runs(w, {"delete_user"}, "cascade")
                  /\ held.next <= Len(held.posts)
                  /\ Proceed(w, job, "cascade",
                             [held EXCEPT
                                 !.comments = @ \cup ids_where(comments, "post_id",
                                                               held.posts[held.next]),
                                 !.next = @ + 1])
               \/ /\ Runs(w, {"delete_user"}, "cascade")
                  /\ held.next > Len(held.posts)
                  /\ Proceed(w, job, "marked",
                             [held EXCEPT
                                 !.comments = @ \cup ids_where(comments, "owner_id",
                                                               job.path_id)])
               \/ /\ Runs(w, {"delete_post"}, "found")
                  /\ Proceed(w, job, "marked",
                             [comments |-> ids_where(comments, "post_id", job.path_id)])

(* db.commit() of a delete handler: one DELETE for each row the session    *)
(* marked, the comments, the posts, then the row itself; a DELETE that     *)
(* matches no row is not an error. Where the foreign keys are checked, the *)
(* DELETE of a user or of a post that a row the session did not load still *)
(* names raises IntegrityError: nothing is deleted and no handler catches  *)
(* it. The session keeps what it marked until the request is released      *)
CommitDelete ==
    \E w \in Workers, checked \in ForeignKey :
        LET job    == Val(req[w])
            marked == IF "posts" \in DOMAIN job.held
                      THEN {job.held.posts[i] : i \in 1..Len(job.held.posts)}
                      ELSE {}
            gone_users == IF job.endpoint = "delete_user" /\ exists_id(users, job.path_id)
                          THEN {job.path_id} ELSE {}
            gone_posts == {id \in (IF job.endpoint = "delete_post"
                                   THEN {job.path_id} ELSE marked) : exists_id(posts, id)}
            kept_posts    == delete_where_id(posts, gone_posts)
            kept_comments == delete_where_id(comments, job.held.comments)
            refused == /\ checked
                       /\ \/ \E i \in 1..Len(kept_posts) :
                                 kept_posts[i].owner_id \in gone_users
                          \/ \E i \in 1..Len(kept_comments) :
                                 \/ kept_comments[i].owner_id \in gone_users
                                 \/ kept_comments[i].post_id \in gone_posts
        IN  /\ Runs(w, {"delete_user", "delete_post", "delete_comment"}, "marked")
            /\ comments' = IF refused THEN comments ELSE kept_comments
            /\ posts' = IF refused THEN posts ELSE kept_posts
            /\ users' = IF refused THEN users ELSE delete_where_id(users, gone_users)
            /\ req' = [req EXCEPT ![w] = Some(Staged(job, "returned", job.held))]
            /\ resp' = [resp EXCEPT ![w] =
                           Some(IF refused THEN ServerError
                                ELSE Ok(CASE job.endpoint = "delete_user" ->
                                                 [deleted_user_id |-> job.path_id]
                                          [] job.endpoint = "delete_post" ->
                                                 [deleted_post_id |-> job.path_id]
                                          [] OTHER -> [deleted_comment_id |-> job.path_id]))]
            /\ UNCHANGED now

(* the INSERT of create_user on a table without the UNIQUE constraint *)
insert_user_unconstrained(user_table, row) == Some(Append(user_table, row))

(* INSERT INTO users: users.email is declared unique=True, so a second row *)
(* with a stored email raises IntegrityError (None) and stores nothing     *)
insert_user(user_table, row) ==
    IF \E i \in 1..Len(user_table) : user_table[i].email = row.email
    THEN None
    ELSE Some(Append(user_table, row))

(* db.add(row); db.commit() of a create handler: the INSERT. A second     *)
(* user with a stored email raises IntegrityError; where the foreign keys  *)
(* are checked, so does a post whose owner, or a comment whose owner or    *)
(* post, is not stored. No create handler catches it                       *)
CommitInsert ==
    \E w \in Workers, checked \in ForeignKey :
        LET job  == Val(req[w])
            id   == job.held.id
            body == Val(job.body)
            refused ==
                CASE job.endpoint = "create_user" ->
                         insert_user(users, db_user(id, body, now)) = None
                  [] job.endpoint = "create_post" ->
                         checked /\ ~exists_id(users, body.owner_id)
                  [] OTHER ->
                         checked /\ (\/ ~exists_id(users, body.owner_id)
                                     \/ ~exists_id(posts, body.post_id))
        IN  /\ Runs(w, {"create_user", "create_post", "create_comment"}, "added")
            /\ IF refused
               THEN Return(w, job, ServerError) /\ UNCHANGED Store
               ELSE /\ Proceed(w, job, "committed", [id |-> id])
                    /\ users' = IF job.endpoint = "create_user"
                                THEN Val(insert_user(users, db_user(id, body, now)))
                                ELSE users
                    /\ posts' = IF job.endpoint = "create_post"
                                THEN Append(posts, db_post(id, body, now))
                                ELSE posts
                    /\ comments' = IF job.endpoint = "create_comment"
                                   THEN Append(comments, db_comment(id, body, now))
                                   ELSE comments

(* the table a handler reads and writes its own row in *)
TableOfHandler(endpoint) ==
    CASE endpoint \in {"get_user", "create_user", "update_user", "delete_user"} -> users
      [] endpoint \in {"get_post", "create_post", "update_post", "delete_post"} -> posts
      [] OTHER -> comments

(* db.commit() of an update handler: the flush sends one UPDATE with the   *)
(* changed columns, or no statement when no assigned value differs from    *)
(* the loaded one; an UPDATE that matches no row raises StaleDataError,    *)
(* which no handler catches                                                *)
CommitUpdate ==
    \E w \in Workers :
        LET job    == Val(req[w])
            row    == job.held.row
            values == assigned(job.endpoint, row, Val(job.body))
            table  == TableOfHandler(job.endpoint)
            saved  == update_where_id(table, row, values)
        IN  /\ Runs(w, {"update_user", "update_post", "update_comment"}, "assigned")
            /\ IF changed(row, values) # {} /\ ~exists_id(table, row.id)
               THEN Return(w, job, ServerError) /\ UNCHANGED Store
               ELSE /\ Proceed(w, job, "committed", [id |-> row.id])
                    /\ IF changed(row, values) = {} THEN UNCHANGED Store
                       ELSE /\ users' = IF job.endpoint = "update_user" THEN saved ELSE users
                            /\ posts' = IF job.endpoint = "update_post" THEN saved ELSE posts
                            /\ comments' = IF job.endpoint = "update_comment"
                                           THEN saved ELSE comments

(* db.refresh(row) after the commit: a SELECT by the identifier. A row     *)
(* that is gone raises InvalidRequestError, which no handler catches.      *)
(* create_user and update_user return the dict of the refreshed row        *)
Refresh ==
    \E w \in Workers :
        LET job   == Val(req[w])
            table == TableOfHandler(job.endpoint)
        IN  /\ Sent
            /\ At(w, "committed")
            /\ UNCHANGED Store
            /\ IF ~exists_id(table, job.held.id) THEN Return(w, job, ServerError)
               ELSE IF job.endpoint \in {"create_user", "update_user"}
               THEN Return(w, job, Ok(user_read(first_by_id(table, job.held.id))))
               ELSE Proceed(w, job, "loaded", [row |-> first_by_id(table, job.held.id)])

(* the response of a post or comment handler, given the row it holds and   *)
(* the users table its owner is read from; create_post answers the tags of *)
(* the body                                                                *)
owner_response(endpoint, row, body, user_table) ==
    CASE endpoint = "get_post" -> Ok(post_dict(row, user_table, Str_en))
      [] endpoint = "create_post" ->
             Ok(post_read([row EXCEPT !.tags = Val(body).tags], user_table))
      [] endpoint = "update_post" -> Ok(post_read(row, user_table))
      [] OTHER -> Ok(comment_read(row, user_table))

(* the owner of the row the handler holds is read with a SELECT of its     *)
(* own: post.owner and db_post.owner in get_post and update_post, the      *)
(* expired owner in create_post, comment.owner when CommentRead is built   *)
(* from the comment in the comment handlers. A missing owner raises        *)
(* (AttributeError on None, ObjectDeletedError, ResponseValidationError),  *)
(* which no handler catches                                                *)
LoadOwner ==
    \E w \in Workers :
        LET job == Val(req[w])
            row == job.held.row
        IN  /\ Sent
            /\ At(w, "loaded")
            /\ UNCHANGED Store
            /\ Return(w, job,
                      IF ~exists_id(users, row.owner_id) THEN ServerError
                      ELSE owner_response(job.endpoint, row, job.body, users))

(* the response of worker w has gone out: the worker takes the next request *)
Release ==
    \E w \in Workers :
        /\ At(w, "returned")
        /\ req' = [req EXCEPT ![w] = None]
        /\ resp' = [resp EXCEPT ![w] = None]
        /\ UNCHANGED <<users, posts, comments, now>>

(* the application starts on empty tables *)
InitWorkers ==
    /\ users = <<>>
    /\ posts = <<>>
    /\ comments = <<>>
    /\ now = StartTime
    /\ req = [w \in Workers |-> None]
    /\ resp = [w \in Workers |-> None]

NextCrud ==
    \/ GetUser
    \/ CreateUser
    \/ UpdateUser
    \/ DeleteUser
    \/ CreatePost
    \/ UpdatePost
    \/ GetPost
    \/ DeletePost
    \/ CreateComment
    \/ SelectPost
    \/ GetComment
    \/ UpdateComment
    \/ DeleteComment
    \/ LoadCascade
    \/ CommitDelete
    \/ CommitInsert
    \/ CommitUpdate
    \/ Refresh
    \/ LoadOwner
    \/ Release

SpecCrud == InitWorkers /\ [][NextCrud]_vars

(* the user handlers alone: the posts and comments tables stay empty *)
NextUsers ==
    \/ GetUser
    \/ CreateUserOfMany
    \/ UpdateUser
    \/ DeleteUser
    \/ LoadCascade
    \/ CommitDelete
    \/ CommitInsert
    \/ CommitUpdate
    \/ Refresh
    \/ Release

SpecUsers == InitWorkers /\ [][NextUsers]_vars

----------------------------------------------------------------------------
(* Reading a step of the single-record handlers *)

(* worker w takes a request of one of these handlers in this step *)
Enters(w, endpoints) ==
    /\ Free(w)
    /\ req'[w] # None
    /\ Val(req'[w]).endpoint \in endpoints

(* the handler of one of these endpoints that worker w runs returns or     *)
(* raises in this step                                                     *)
Answers(w, endpoints) ==
    /\ ~At(w, "returned")
    /\ req'[w] # None
    /\ Val(req'[w]).stage = "returned"
    /\ Val(req'[w]).endpoint \in endpoints

(* the step answers worker w's request with this status *)
Rejects(w, status) ==
    /\ req'[w] # None
    /\ Val(req'[w]).stage = "returned"
    /\ Val(resp'[w]).status = status

PathHandlers ==
    {"get_user", "update_user", "delete_user", "get_post", "update_post",
     "delete_post", "get_comment", "update_comment", "delete_comment"}

(* C21: every endpoint with a user, post or comment identifier in its path *)
(* answers a malformed identifier with status 400 and leaves the store     *)
(* unchanged                                                               *)
C21_MalformedIdIs400 ==
    [][\A w \in Workers :
          (Answers(w, PathHandlers) /\ ~validate_uuid(Val(req'[w]).path_id)) =>
              /\ Val(resp'[w]).status = 400
              /\ Store' = Store]_vars

(* the rows of a table that the step keeps: same identifier before and     *)
(* after                                                                   *)
KeptRows(before, after) ==
    {<<i, j>> \in (1..Len(before)) \X (1..Len(after)) : before[i].id = after[j].id}

(* worker w takes an update whose body names another owner than the stored *)
(* record has                                                              *)
OwnerChange(w, endpoint, table) ==
    /\ Enters(w, {endpoint})
    /\ exists_id(table, Val(req'[w]).path_id)
    /\ Val(Val(req'[w]).body).owner_id # first_by_id(table, Val(req'[w]).path_id).owner_id

(* C24: update_post and update_comment with another owner_id than the      *)
(* stored one answer 400 and change nothing, and no step of any handler    *)
(* changes the owner_id of a stored post or the owner_id or post_id of a   *)
(* stored comment                                                          *)
C24_OwnerNeverChanges ==
    [][/\ \A w \in Workers :
              (OwnerChange(w, "update_post", posts)
               \/ OwnerChange(w, "update_comment", comments))
                  => (Rejects(w, 400) /\ Store' = Store)
       /\ \A k \in KeptRows(posts, posts') :
              posts'[k[2]].owner_id = posts[k[1]].owner_id
       /\ \A k \in KeptRows(comments, comments') :
              /\ comments'[k[2]].owner_id = comments[k[1]].owner_id
              /\ comments'[k[2]].post_id = comments[k[1]].post_id]_vars

(* every reference of a stored row names a stored row *)
ReferentialIntegrity ==
    /\ \A i \in 1..Len(posts) : exists_id(users, posts[i].owner_id)
    /\ \A i \in 1..Len(comments) :
           /\ exists_id(users, comments[i].owner_id)
           /\ exists_id(posts, comments[i].post_id)

(* an update_comment that names another owner than the stored comment has *)
(* was answered 400, and the comment is stored with its owner and its post *)
C24_Witness ==
    \E w \in Workers :
        /\ At(w, "returned")
        /\ Val(req[w]).endpoint = "update_comment"
        /\ exists_id(comments, Val(req[w]).path_id)
        /\ Val(Val(req[w]).body).owner_id
               # first_by_id(comments, Val(req[w]).path_id).owner_id
        /\ Val(Val(req[w]).body).message
               # first_by_id(comments, Val(req[w]).path_id).message
        /\ ReferentialIntegrity
        /\ Val(resp[w]).status = 400

(* no handler is running *)
Quiescent == \A w \in Workers : Free(w)

(* the requests so far came one after another: no request is in hand      *)
(* while another is                                                        *)
OneAtATime == Cardinality({w \in Workers : ~Free(w)}) <= 1

(* a delete_user answered 200 has left no post or comment of that user,    *)
(* and a delete_post answered 200 no comment of that post                  *)
ChildrenDeleted ==
    \A w \in Workers :
        (At(w, "returned") /\ Val(resp[w]).status = 200) =>
            /\ Val(req[w]).endpoint = "delete_user" =>
                   /\ \A i \in 1..Len(posts) : posts[i].owner_id # Val(req[w]).path_id
                   /\ \A i \in 1..Len(comments) :
                          comments[i].owner_id # Val(req[w]).path_id
            /\ Val(req[w]).endpoint = "delete_post" =>
                   \A i \in 1..Len(comments) : comments[i].post_id # Val(req[w]).path_id

(* C27: after any sequence of completed create and delete operations, the  *)
(* requests coming one after another among all the ways the workers run    *)
(* them, every stored post's owner_id names a stored user and every stored *)
(* comment's owner_id and post_id name a stored user and a stored post;    *)
(* delete_user leaves no post or comment of that user, and delete_post no  *)
(* comment of that post                                                    *)
C27_ReferentialIntegrity ==
    []OneAtATime => []((Quiescent => ReferentialIntegrity) /\ ChildrenDeleted)

(* delete_user has been answered 200 for a user who had a post and a       *)
(* comment: the session deleted them with the user, and no row is left     *)
(* that names the user                                                     *)
C27_Witness ==
    \E w \in Workers :
        /\ At(w, "returned")
        /\ Val(req[w]).endpoint = "delete_user"
        /\ Val(resp[w]).status = 200
        /\ Val(req[w]).held.posts # <<>>
        /\ Val(req[w]).held.comments # {}
        /\ ~exists_id(users, Val(req[w]).path_id)
        /\ \A i \in 1..Len(posts) : posts[i].owner_id # Val(req[w]).path_id
        /\ \A i \in 1..Len(comments) : comments[i].owner_id # Val(req[w]).path_id
        /\ ReferentialIntegrity

MutatingHandlers ==
    {"create_user", "update_user", "delete_user", "create_post", "update_post",
     "delete_post", "create_comment", "update_comment", "delete_comment"}

(* the table a handler looks its path identifier up in *)
TableFor(endpoint) ==
    CASE endpoint \in {"get_user", "update_user", "delete_user"} -> users
      [] endpoint \in {"get_post", "update_post", "delete_post"} -> posts
      [] endpoint \in {"get_comment", "update_comment", "delete_comment"} -> comments

(* C28: the step that rejects a mutating request with 400 or 404 leaves    *)
(* the store as it was, no step of that handler came before it but         *)
(* queries, and these are rejected so: create_user with a stored email     *)
(* (400), update_user with another email (400), create_post with a missing *)
(* owner (404), create_comment with a missing user or post (404), update   *)
(* or delete of a missing record (404)                                     *)
C28_RejectedLeavesStore ==
    [][\A w \in Workers :
          /\ (Answers(w, MutatingHandlers) /\ Val(resp'[w]).status \in {400, 404})
                 => /\ Store' = Store
                    /\ Free(w) \/ At(w, "queried")
          /\ (Enters(w, {"create_user"})
              /\ \E i \in 1..Len(users) : users[i].email = Val(Val(req'[w]).body).email)
                 => Rejects(w, 400)
          /\ (Enters(w, {"update_user"}) /\ exists_id(users, Val(req'[w]).path_id)
              /\ first_by_id(users, Val(req'[w]).path_id).email
                     # Val(Val(req'[w]).body).email)
                 => Rejects(w, 400)
          /\ (Enters(w, {"create_post"})
              /\ ~exists_id(users, Val(Val(req'[w]).body).owner_id))
                 => Rejects(w, 404)
          /\ (Runs(w, {"create_comment"}, "queried") /\ req'[w] # req[w]
              /\ (\/ ~Val(req[w]).held.user
                  \/ ~exists_id(posts, Val(Val(req[w]).body).post_id)))
                 => Rejects(w, 404)
          /\ (Enters(w, {"create_comment"})
              /\ ~exists_id(users, Val(Val(req'[w]).body).owner_id))
                 => ~Val(req'[w]).held.user
          /\ (Enters(w, MutatingHandlers \ {"create_user", "create_post", "create_comment"})
              /\ validate_uuid(Val(req'[w]).path_id)
              /\ ~exists_id(TableFor(Val(req'[w]).endpoint), Val(req'[w]).path_id))
                 => Rejects(w, 404)]_vars

(* create_user with a stored email was answered 400 while another handler  *)
(* was between its query and its commit, on a store that holds a post      *)
C28_Witness ==
    \E v, w \in Workers :
        /\ At(w, "returned")
        /\ Val(req[w]).endpoint = "create_user"
        /\ \E i \in 1..Len(users) : users[i].email = Val(Val(req[w]).body).email
        /\ Val(resp[w]).status = 400
        /\ At(v, "assigned")
        /\ posts # <<>>

(* C29: the commit of a successful update_post stores the text, likes and  *)
(* tags of the request body, likes = 0 and an empty tags list included     *)
C29_UpdatePostStoresBody ==
    [][\A w \in Workers :
          (Runs(w, {"update_post"}, "assigned") /\ req'[w] # None
           /\ Val(req'[w]).stage = "committed" /\ exists_id(posts', Val(req[w]).path_id)) =>
              LET stored == first_by_id(posts', Val(req[w]).path_id)
              IN  /\ stored.text = Val(Val(req[w]).body).text
                  /\ stored.likes = Val(Val(req[w]).body).likes
                  /\ stored.tags = Val(Val(req[w]).body).tags]_vars

(* no two stored users have the same email *)
UniqueEmails ==
    \A i, j \in 1..Len(users) : users[i].email = users[j].email => i = j

(* C26: no two stored users have the same email, under any interleaving of *)
(* the statements of create_user, update_user and delete_user requests,    *)
(* and no step changes the email of a stored user                          *)
C26_EmailsUniqueAndFixed ==
    /\ []UniqueEmails
    /\ [][\A k \in KeptRows(users, users') :
              users'[k[2]].email = users[k[1]].email]_vars

(* two create_user requests with one email both passed the query, and the  *)
(* commit of the second was refused: the email is stored once, under the   *)
(* identifier of the first                                                 *)
C26_Witness ==
    \E w \in Workers :
        /\ At(w, "returned")
        /\ Val(req[w]).endpoint = "create_user"
        /\ Val(resp[w]) = ServerError
        /\ Len(users) = 1
        /\ users[1].email = Val(Val(req[w]).body).email
        /\ \A v \in Workers \ {w} : Free(v)

----------------------------------------------------------------------------
(* List requests statement by statement: a list handler receives the       *)
(* request; it runs query.all() and keeps the rows in a local; its loop    *)
(* over the page reads p.owner, c.owner, one SELECT for each user the      *)
(* session does not hold yet; it builds the response from the rows, the    *)
(* owners and the clock. req[w] is [request, stage, rows, owners, clock];  *)
(* resp[w] is the response the client of worker w holds.                   *)

ConcurrentRequests ==
    {UsersBase,
     [UsersBase EXCEPT !.firstName = Some(Filter_z)],
     [UsersBase EXCEPT !.page = 2, !.limit = 1],
     [UsersBase EXCEPT !.accept_language = Str_fr_FR],
     PostsBase,
     [PostsBase EXCEPT !.owner_id = Some(UserId(1))],
     [PostsBase EXCEPT !.accept = Accept_xml, !.accept_encoding = Encoding_gzip],
     CommentsBase,
     [CommentsBase EXCEPT !.owner_id = Some(UserId(2))]}

Running(request, stage, rows, owners, clock) ==
    [request |-> request, stage |-> stage, rows |-> rows, owners |-> owners,
     clock |-> clock]

(* users_list = query.all(), posts_list = query.all(),                     *)
(* comments_list = query.all()                                             *)
query_all(request) ==
    CASE request.endpoint = "users" -> users_query(users, request)
      [] request.endpoint = "posts" -> posts_query(posts, request)
      [] request.endpoint = "comments" -> comments_query(comments, request)

(* the loop `for p in posts_page: owner = p.owner` (`for c in              *)
(* comments_page` likewise; the loop of get_users reads no relationship):  *)
(* the owner_id of the first row of the page whose owner the session does  *)
(* not hold, None when it holds them all                                   *)
owner_to_load(request, rows, owners) ==
    LET page    == CASE request.endpoint = "posts" ->
                            page_slice(posts_list_of(rows, request),
                                       request.page, request.limit)
                     [] request.endpoint = "comments" ->
                            page_slice(comments_list_of(rows, request),
                                       request.page, request.limit)
                     [] OTHER -> <<>>
        missing == SelectSeq([i \in 1..Len(page) |-> page[i].owner_id],
                             LAMBDA id : ~exists_id(owners, id))
    IN  IF missing = <<>> THEN None ELSE Some(Head(missing))

(* the rows of whichever worker holds rows, as a list kept at module level *)
(* would give them                                                         *)
rows_of_module(w) ==
    LET holders == {v \in Workers :
                       /\ req[v] # None
                       /\ Val(req[v]).request.endpoint = Val(req[w]).request.endpoint
                       /\ Val(req[v]).stage \in {"selected", "returned"}}
    IN  Val(req[CHOOSE v \in holders : \A u \in holders : v <= u]).rows

(* the list the handler that worker w runs holds in its local variable *)
rows_of(w) == Val(req[w]).rows

(* the handler after its loop, run over the rows the query returned and    *)
(* the owners the loop read: the filters of the query hold of each row     *)
finish_list(request, rows, owners, clock) ==
    CASE request.endpoint = "users" -> get_users(rows, clock, request)
      [] request.endpoint = "posts" -> get_posts(rows, owners, clock, request)
      [] request.endpoint = "comments" -> get_comments(rows, owners, clock, request)

ReceiveList ==
    \E w \in Workers, request \in ConcurrentRequests :
        /\ Free(w)
        /\ req' = [req EXCEPT ![w] = Some(Running(request, "received", <<>>, <<>>, now))]
        /\ UNCHANGED <<users, posts, comments, now, resp>>

QueryAll ==
    \E w \in Workers :
        /\ At(w, "received")
        /\ req' = [req EXCEPT ![w] =
                      Some(Running(Val(req[w]).request, "selected",
                                   query_all(Val(req[w]).request), <<>>, now))]
        /\ UNCHANGED <<users, posts, comments, now, resp>>

(* owner = p.owner, owner = c.owner: the lazy load of a user the session   *)
(* does not hold. A row without a stored owner gives None, and owner.id    *)
(* raises AttributeError into the handler's `except Exception`             *)
LazyLoad ==
    \E w \in Workers :
        LET job  == Val(req[w])
            next == owner_to_load(job.request, rows_of(w), job.owners)
        IN  /\ At(w, "selected")
            /\ next # None
            /\ UNCHANGED <<users, posts, comments, now>>
            /\ IF exists_id(users, Val(next))
               THEN /\ req' = [req EXCEPT ![w] =
                                  Some([job EXCEPT !.owners =
                                            Append(@, owner_of(users, Val(next)))])]
                    /\ UNCHANGED resp
               ELSE /\ req' = [req EXCEPT ![w] = Some([job EXCEPT !.stage = "returned"])]
                    /\ resp' = [resp EXCEPT ![w] = Some(Error500("'NoneType' object has no attribute 'id'"))]

RespondList ==
    \E w \in Workers, clock \in Clock :
        LET job == Val(req[w])
        IN  /\ At(w, "selected")
            /\ owner_to_load(job.request, rows_of(w), job.owners) = None
            /\ req' = [req EXCEPT ![w] =
                          Some(Running(job.request, "returned", rows_of(w), job.owners,
                                       clock))]
            /\ resp' = [resp EXCEPT ![w] =
                           Some(finish_list(job.request, rows_of(w), job.owners, clock))]
            /\ now' = clock
            /\ UNCHANGED <<users, posts, comments>>

InitConcurrent ==
    /\ users = TwoUsers
    /\ posts = TwoPosts
    /\ \E n \in 0..MaxComments :
           comments = [i \in 1..n |-> comment_row(i, Str_Zed, 0)]
    /\ now = StartTime
    /\ req = [w \in Workers |-> None]
    /\ resp = [w \in Workers |-> None]

NextConcurrent ==
    \/ ReceiveList
    \/ QueryAll
    \/ LazyLoad
    \/ RespondList
    \/ Release

SpecConcurrent == InitConcurrent /\ [][NextConcurrent]_vars

(* C23: whatever the interleaving of the list requests, the response of    *)
(* each (status, body, headers with the ETag) is the response the handler  *)
(* gives the same request when it runs alone at the same clock reading     *)
C23_ResponseAsWhenAlone ==
    \A w \in Workers :
        At(w, "returned") =>
            resp[w] = Some(Handle(Val(req[w]).request, Val(req[w]).clock))

(* two workers hold answers to different requests of one endpoint, and the *)
(* second was received before the first returned                           *)
C23_Witness ==
    /\ At(1, "returned")
    /\ At(2, "returned")
    /\ Val(req[1]).request.endpoint = "users"
    /\ Val(req[2]).request.endpoint = "users"
    /\ Val(req[1]).request.firstName = None
    /\ Val(req[2]).request.firstName # None
    /\ Val(req[1]).rows # Val(req[2]).rows
    /\ Val(resp[1]).status = 200
    /\ Val(resp[2]).status = 200
    /\ Val(resp[1]).headers.etag # Val(resp[2]).headers.etag

----------------------------------------------------------------------------
(* Revalidation across a change: a client lists the posts, keeps the       *)
(* exchange (the request and resp[w] of the worker that answered it), and  *)
(* asks again with the validators it received, for the same page or        *)
(* another one. The statements of get_posts interleave with those of the   *)
(* update_post requests that other workers run.                            *)

PostPages ==
    {[PostsBase EXCEPT !.page = p, !.limit = l] : p \in 1..MaxLimit, l \in {1, DefaultLimit}}

(* the follow-ups of a client that holds a 200 response: the same query on *)
(* any page, with the ETag, the Last-Modified or both                      *)
Revisits(request, response) ==
    {[request EXCEPT !.page = p, !.if_none_match = inm, !.if_modified_since = ims] :
        p \in 1..MaxLimit,
        inm \in {None, Some(response.headers.etag)},
        ims \in {None, Some(response.headers.last_modified)}}
    \ {[request EXCEPT !.page = p] : p \in 1..MaxLimit}

(* get_posts up to posts_list = query.all(); resp[w] stays what the client *)
(* holds                                                                   *)
SelectList(w, request) ==
    /\ req' = [req EXCEPT ![w] =
                  Some(Running(request, "selected", query_all(request), <<>>, now))]
    /\ UNCHANGED <<users, posts, comments, now, resp>>

ListPosts ==
    \E w \in Workers, request \in PostPages :
        /\ Takes(w)
        /\ \A v \in Workers : ~Free(v) => "request" \notin DOMAIN Val(req[v])
        /\ SelectList(w, request)

RevisitPosts ==
    \E w \in Workers :
        /\ At(w, "kept")
        /\ \E request \in Revisits(Val(req[w]).request, Val(resp[w])) :
               SelectList(w, request)

(* a 200 response is with the client, which keeps the exchange to          *)
(* revalidate it; Release is the client that keeps nothing                 *)
KeepList ==
    \E w \in Workers :
        /\ At(w, "returned")
        /\ "request" \in DOMAIN Val(req[w])
        /\ Val(resp[w]).status = 200
        /\ req' = [req EXCEPT ![w] = Some([Val(req[w]) EXCEPT !.stage = "kept"])]
        /\ UNCHANGED <<users, posts, comments, now, resp>>

InitRevalidate ==
    /\ users = TwoUsers
    /\ posts = TwoPosts
    /\ comments = <<>>
    /\ now = StartTime
    /\ req = [w \in Workers |-> None]
    /\ resp = [w \in Workers |-> None]

NextRevalidate ==
    \/ ListPosts
    \/ RevisitPosts
    \/ LazyLoad
    \/ RespondList
    \/ KeepList
    \/ UpdatePost
    \/ CommitUpdate
    \/ Refresh
    \/ LoadOwner
    \/ Release

SpecRevalidate == InitRevalidate /\ [][NextRevalidate]_vars

(* the step answers the follow-up that worker w runs for a client that     *)
(* holds a 200 response                                                    *)
Revisiting(w) ==
    /\ At(w, "selected")
    /\ resp[w] # None
    /\ Val(resp[w]).status = 200
    /\ req'[w] # None
    /\ Val(req'[w]).stage = "returned"

(* the payload the handler that worker w runs has built from the rows and  *)
(* the owners it read                                                      *)
PayloadBuilt(w) ==
    posts_locals(Val(req'[w]).rows, Val(req'[w]).owners, now',
                 Val(req'[w]).request).response_data

(* C25: a follow-up that carries the ETag and/or the Last-Modified of a    *)
(* 200 response is answered 200, not 304, when the payload it would get    *)
(* differs from the payload of that response, be it after an update of a   *)
(* listed post or for another page                                         *)
C25_ChangedPayloadIsResent ==
    [][\A w \in Workers :
          (Revisiting(w) /\ PayloadBuilt(w) # PayloadOf(Val(resp[w])))
          => Val(resp'[w]).status = 200]_vars

====
